---------------------------- MODULE Spec2Model ----------------------------
(***************************************************************************)
(* Query planning and response synthesis pipeline of the Sprinklr          *)
(* historical-data chatbot: QueryAgent (src/src/agents/query_agent.py),    *)
(* Orchestrator (src/src/agents/orchestrator.py), ResponseAgent            *)
(* (src/src/agents/response_agent.py) and the VectorStore reads they use   *)
(* (src/src/vector_store.py); the batched case fetch of SprinklrClient     *)
(* (src/src/sprinklr_client.py) and the Chatbot (src/src/chatbot.py).      *)
(*                                                                         *)
(* A query is a sequence of lower-level tokens (words, phrases and digit   *)
(* runs); regular expressions and substring tests of the source are        *)
(* evaluated over that sequence.  Python values that come out of a         *)
(* completion response are dynamically typed, so they are modelled as      *)
(* tagged records; a dictionary is a record whose missing keys hold        *)
(* Absent.  Dates are day numbers counted from 2025-01-01 (day 0).         *)
(***************************************************************************)
EXTENDS Integers, Sequences, FiniteSets, TLC

(***************************************************************************)
(* Bounds of the model.                                                    *)
(***************************************************************************)
MaxKeywords == 3
MaxSteps == 5
MaxDayOffset == 7
MaxBrands == 11
MaxPages == 2
MaxLimit == 3
MaxBatch == 3
MaxHistory == 21

(***************************************************************************)
(* Program constants.                                                      *)
(***************************************************************************)
PLAN_STEP_CAP == 50
MAX_PLAN_STEPS == 4
BROAD_STEP_CAP == 50
FILTERED_STEP_CAP == 10
SPECIFIC_STEP_CAP == 3
PRIOR_TOP == 3
MAX_CONTEXT_CASES_BROAD == 50
DEFAULT_RESULT_COUNT == 10
FILTERED_RESULT_COUNT == 10
BROAD_RESULT_COUNT == 100
AGGREGATION_RESULT_COUNT == 50
LLM_FALLBACK_RESULT_COUNT == 15
LONG_CASE_DIGITS == 4
CONTEXT_TOP_ITEMS == 10
CONTEXT_SAMPLE_CASES == 5
HISTORY_LIMIT == 20

(***************************************************************************)
(* Python values.                                                          *)
(***************************************************************************)
Absent == [t |-> "absent"]
None == [t |-> "none"]
mkInt(n) == [t |-> "int", v |-> n]
mkStr(s) == [t |-> "str", v |-> s]
mkDate(d) == [t |-> "date", v |-> d]
mkList(l) == [t |-> "list", v |-> l]
mkBool(b) == [t |-> "bool", v |-> b]
\* a query text used as a value
mkText(q) == [t |-> "text", v |-> q]

\* bool(v) of Python
Truthy(v) ==
    CASE v.t = "none" -> FALSE
      [] v.t = "absent" -> FALSE
      [] v.t = "int" -> v.v # 0
      [] v.t = "str" -> v.v # ""
      [] v.t = "text" -> Len(v.v) > 0
      [] v.t = "date" -> TRUE
      [] v.t = "list" -> Len(v.v) > 0
      [] v.t = "bool" -> v.v
      [] OTHER -> TRUE

\* d.get(k, default): the default only when the key is missing
Get(d, k, default) == IF d[k] = Absent THEN default ELSE d[k]

\* "<" in str(v): the relative-date placeholders of the prompts
HasPlaceholder(v) == v.t = "str" /\ v.v \in {"<30 days ago>", "<today>"}

Min(a, b) == IF a <= b THEN a ELSE b

Range(s) == {s[i] : i \in 1..Len(s)}

FirstN(s, n) == SubSeq(s, 1, Min(Len(s), n))

RECURSIVE SeqFilter(_, _)
SeqFilter(s, keep) ==
    IF s = <<>> THEN <<>>
    ELSE IF Head(s) \in keep THEN <<Head(s)>> \o SeqFilter(Tail(s), keep)
         ELSE SeqFilter(Tail(s), keep)


(***************************************************************************)
(* Query text.                                                             *)
(***************************************************************************)
\* the digit runs that occur in queries, int() of each and its length
DigitTokens == {"500", "0500", "0", "12345"}

IntOf(tok) ==
    CASE tok = "500" -> 500
      [] tok = "0500" -> 500
      [] tok = "0" -> 0
      [] tok = "12345" -> 12345

NumDigits(tok) ==
    CASE tok = "500" -> 3
      [] tok = "0500" -> 4
      [] tok = "0" -> 1
      [] tok = "12345" -> 5

\* str.lower() of a token
LowerTok(tok) ==
    CASE tok = "B1" -> "b1"
      [] tok = "B2" -> "b2"
      [] tok = "Case" -> "case"
      [] OTHER -> tok

Lower(q) == [i \in 1..Len(q) |-> LowerTok(q[i])]

\* theme.replace("_", " ")
UnderscoreToSpace(s) ==
    CASE s = "church_hurt" -> "church hurt"
      [] OTHER -> s

Contains(q, phrase) == \E i \in 1..Len(q) : q[i] = phrase

\* regex a.*b on the token sequence
ContainsInOrder(q, a, b) ==
    \E i \in 1..Len(q) : \E j \in 1..Len(q) : i < j /\ q[i] = a /\ q[j] = b

IsDigits(q, i) == i <= Len(q) /\ q[i] \in DigitTokens

CASE_NUMBER_PATTERNS == <<"case_hash_digits", "hash_digits", "case_number_digits", "case_long_digits">>

\* the index of the captured digit run when the pattern matches at position i, else 0
MatchAt(pattern, q, i) ==
    CASE pattern = "case_hash_digits" ->
            IF q[i] # "case" THEN 0
            ELSE IF IsDigits(q, i + 1) THEN i + 1
            ELSE IF i + 1 <= Len(q) /\ q[i + 1] = "#" /\ IsDigits(q, i + 2) THEN i + 2
            ELSE 0
      [] pattern = "hash_digits" ->
            IF q[i] = "#" /\ IsDigits(q, i + 1) THEN i + 1 ELSE 0
      [] pattern = "case_number_digits" ->
            IF q[i] = "case" /\ i + 1 <= Len(q) /\ q[i + 1] = "number" /\ IsDigits(q, i + 2)
            THEN i + 2 ELSE 0
      [] pattern = "case_long_digits" ->
            IF q[i] = "case" /\ IsDigits(q, i + 1) /\ NumDigits(q[i + 1]) >= LONG_CASE_DIGITS
            THEN i + 1 ELSE 0

\* re.search(pattern, query, re.IGNORECASE): the leftmost match, 0 when none
Search(pattern, q) ==
    LET lq == Lower(q)
        hits == {i \in 1..Len(lq) : MatchAt(pattern, lq, i) # 0}
    IN  IF hits = {} THEN 0
        ELSE MatchAt(pattern, lq, CHOOSE i \in hits : \A j \in hits : i <= j)

RECURSIVE ExtractFrom(_, _)
ExtractFrom(patterns, q) ==
    IF patterns = <<>> THEN None
    ELSE LET g == Search(Head(patterns), q)
         IN  IF g # 0 THEN mkInt(IntOf(Lower(q)[g]))
             ELSE ExtractFrom(Tail(patterns), q)

\* an extraction that knows the last pattern only
extract_long_case_only(q) == ExtractFrom(<<"case_long_digits">>, q)

extract_case_number(q) == ExtractFrom(CASE_NUMBER_PATTERNS, q)

AGGREGATION_KEYWORDS ==
    {"how many", "count", "total", "distribution", "breakdown", "most common",
     "popular", "frequent", "statistics", "stats", "trend", "trends",
     "percentage", "percent"}

is_aggregation_query(q) == \E k \in AGGREGATION_KEYWORDS : Contains(Lower(q), k)

\* COMPOUND_INDICATORS: phrases, and pairs a.*b
COMPOUND_PHRASES == {"with specific cases", "deep dive", "drill down", "changed over time"}

COMPOUND_ORDERED ==
    {<<"compare", "and">>, <<"compare", "vs">>, <<"trend", "examples">>,
     <<"breakdown", "details">>, <<"statistics", "examples">>, <<"stats", "examples">>,
     <<"statistics", "cases">>, <<"stats", "cases">>}

needs_compound_strategy(q) ==
    \/ \E p \in COMPOUND_PHRASES : Contains(Lower(q), p)
    \/ \E p \in COMPOUND_ORDERED : ContainsInOrder(Lower(q), p[1], p[2])

(***************************************************************************)
(* Dates: day numbers from 2025-01-01, a Wednesday.                        *)
(***************************************************************************)
\* datetime.weekday(): Monday is 0
Weekday(d) == (d + 2) % 7

MonthStarts == {0, 31, 59, 90, 120, 151, 181, 212, 243, 273, 304, 334}

\* today.replace(day=1), within 2025
FirstOfMonth(d) == CHOOSE m \in MonthStarts : m <= d /\ \A n \in MonthStarts : n <= d => n <= m

\* a resolution of the date phrases that looks for "today" before every other phrase
date_range_today_first(q, today) ==
    LET ql == Lower(q)
    IN  IF Contains(ql, "today")
        THEN <<mkDate(today), mkDate(today)>>
        ELSE IF Contains(ql, "last 30 days") \/ Contains(ql, "past 30 days") \/ Contains(ql, "past month")
        THEN <<mkDate(today - 30), mkDate(today)>>
        ELSE IF Contains(ql, "last week") \/ Contains(ql, "past week")
        THEN <<mkDate(today - 7), mkDate(today)>>
        ELSE IF Contains(ql, "last 7 days") \/ Contains(ql, "past 7 days")
        THEN <<mkDate(today - 7), mkDate(today)>>
        ELSE IF Contains(ql, "this week")
        THEN <<mkDate(today - Weekday(today)), mkDate(today)>>
        ELSE IF Contains(ql, "this month")
        THEN <<mkDate(FirstOfMonth(today)), mkDate(today)>>
        ELSE IF Contains(ql, "yesterday")
        THEN <<mkDate(today - 1), mkDate(today - 1)>>
        ELSE IF Contains(ql, "recent")
        THEN <<mkDate(today - 14), mkDate(today)>>
        ELSE <<None, None>>

\* a resolution of the date phrases whose weeks start on Sunday
date_range_week_from_sunday(q, today) ==
    LET ql == Lower(q)
    IN  IF Contains(ql, "last 30 days") \/ Contains(ql, "past 30 days") \/ Contains(ql, "past month")
        THEN <<mkDate(today - 30), mkDate(today)>>
        ELSE IF Contains(ql, "last week") \/ Contains(ql, "past week")
        THEN <<mkDate(today - 7), mkDate(today)>>
        ELSE IF Contains(ql, "last 7 days") \/ Contains(ql, "past 7 days")
        THEN <<mkDate(today - 7), mkDate(today)>>
        ELSE IF Contains(ql, "this week")
        THEN <<mkDate(today - ((Weekday(today) + 1) % 7)), mkDate(today)>>
        ELSE IF Contains(ql, "this month")
        THEN <<mkDate(FirstOfMonth(today)), mkDate(today)>>
        ELSE IF Contains(ql, "today")
        THEN <<mkDate(today), mkDate(today)>>
        ELSE IF Contains(ql, "yesterday")
        THEN <<mkDate(today - 1), mkDate(today - 1)>>
        ELSE IF Contains(ql, "recent")
        THEN <<mkDate(today - 14), mkDate(today)>>
        ELSE <<None, None>>

extract_date_range(q, today) ==
    LET ql == Lower(q)
    IN  IF Contains(ql, "last 30 days") \/ Contains(ql, "past 30 days") \/ Contains(ql, "past month")
        THEN <<mkDate(today - 30), mkDate(today)>>
        ELSE IF Contains(ql, "last week") \/ Contains(ql, "past week")
        THEN <<mkDate(today - 7), mkDate(today)>>
        ELSE IF Contains(ql, "last 7 days") \/ Contains(ql, "past 7 days")
        THEN <<mkDate(today - 7), mkDate(today)>>
        ELSE IF Contains(ql, "this week")
        THEN <<mkDate(today - Weekday(today)), mkDate(today)>>
        ELSE IF Contains(ql, "this month")
        THEN <<mkDate(FirstOfMonth(today)), mkDate(today)>>
        ELSE IF Contains(ql, "today")
        THEN <<mkDate(today), mkDate(today)>>
        ELSE IF Contains(ql, "yesterday")
        THEN <<mkDate(today - 1), mkDate(today - 1)>>
        ELSE IF Contains(ql, "recent")
        THEN <<mkDate(today - 14), mkDate(today)>>
        ELSE <<None, None>>

detect_themes(q, available_themes) ==
    SeqFilter(available_themes,
              {th \in Range(available_themes) :
                  Contains(Lower(q), LowerTok(th)) \/ Contains(Lower(q), UnderscoreToSpace(th))})

detect_brands(q, available_brands) ==
    SeqFilter(available_brands,
              {b \in Range(available_brands) : Contains(Lower(q), LowerTok(b))})

(***************************************************************************)
(* Plans.                                                                  *)
(***************************************************************************)
QueryPlan(qt, cn, sq, rc, dl, ds, de, th, br, at) ==
    [kind |-> "simple", query_type |-> qt, case_number |-> cn, semantic_query |-> sq,
     result_count |-> rc, detail_level |-> dl, date_start |-> ds, date_end |-> de,
     themes |-> th, brands |-> br, aggregation_type |-> at]

NonCompound(q) ==
    [kind |-> "compound", is_compound |-> FALSE, steps |-> <<>>,
     synthesis_strategy |-> mkStr("hierarchical"), original_query |-> q]

specific_case_plan(cn) ==
    QueryPlan(mkStr("specific_case"), cn, None, mkInt(1), mkStr("full_conversation"),
              None, None, None, None, None)

\* an aggregation plan that ignores the brand and sentiment keywords
aggregation_plan_by_theme(q, today) ==
    LET dr == extract_date_range(q, today)
    IN  QueryPlan(mkStr("aggregation"), None, mkText(q), mkInt(AGGREGATION_RESULT_COUNT),
                  mkStr("metadata_only"), dr[1], dr[2], None, None, mkStr("count_by_theme"))

create_aggregation_plan(q, today) ==
    LET ql == Lower(q)
        agg_type == IF Contains(ql, "brand") THEN "count_by_brand"
                    ELSE IF Contains(ql, "sentiment") THEN "sentiment_distribution"
                    ELSE "count_by_theme"
        dr == extract_date_range(q, today)
    IN  QueryPlan(mkStr("aggregation"), None, mkText(q), mkInt(AGGREGATION_RESULT_COUNT),
                  mkStr("metadata_only"), dr[1], dr[2], None, None, mkStr(agg_type))

ListOrNone(l) == IF Len(l) > 0 THEN mkList(l) ELSE None

\* a rule-based classification that answers every query with a broad search
rule_based_broad_only(q, today, themes, brands) ==
    LET dr == extract_date_range(q, today)
    IN  QueryPlan(mkStr("broad_search"), None, mkText(q), mkInt(BROAD_RESULT_COUNT),
                  mkStr("summary"), dr[1], dr[2], None, None, None)

rule_based_plan(q, today, themes, brands) ==
    LET dr == extract_date_range(q, today)
        dth == detect_themes(q, themes)
        dbr == detect_brands(q, brands)
    IN  IF Len(dth) > 0 \/ Len(dbr) > 0 \/ Truthy(dr[1])
        THEN QueryPlan(mkStr("filtered_search"), None, mkText(q), mkInt(FILTERED_RESULT_COUNT),
                       mkStr("full_conversation"), dr[1], dr[2],
                       ListOrNone(dth), ListOrNone(dbr), None)
        ELSE QueryPlan(mkStr("broad_search"), None, mkText(q), mkInt(BROAD_RESULT_COUNT),
                       mkStr("summary"), dr[1], dr[2], None, None, None)


(***************************************************************************)
(* Completion responses.  A response is a failure of the call ("raise"),   *)
(* text without a JSON object ("no_json"), text whose JSON does not parse  *)
(* ("bad_json"), or a JSON object ("json", with its dictionary d).         *)
(***************************************************************************)
Raise == [k |-> "raise"]
NoJson == [k |-> "no_json"]
BadJson == [k |-> "bad_json"]
Json(d) == [k |-> "json", d |-> d]

\* a completion call that is issued again when it failed
call_llm_retrying(log, site, failed) ==
    IF failed
    THEN log \o <<[site |-> site, failed |-> TRUE], [site |-> site, failed |-> TRUE]>>
    ELSE Append(log, [site |-> site, failed |-> FALSE])

\* one completion request of a call site: create(...) is called once, and an exception
\* goes to the handler around it
call_llm(log, site, failed) == Append(log, [site |-> site, failed |-> failed])

\* the answer is asked of the completion capability when there is one, and of the
\* fallback formatter otherwise
generate_response(log, oracle) ==
    IF oracle.configured THEN call_llm(log, "synthesis", oracle.synth # "ok") ELSE log

StepDict(st, pu, sq, rc, dl, th, br, ds, de, cns, at, upr) ==
    [t |-> "dict", step_type |-> st, purpose |-> pu, semantic_query |-> sq,
     result_count |-> rc, detail_level |-> dl, themes |-> th, brands |-> br,
     date_start |-> ds, date_end |-> de, case_numbers |-> cns,
     aggregation_type |-> at, use_prior_results |-> upr]

\* min(value, cap) raises TypeError unless value is a number
MinRaises(v) == v.t # "int"

\* one iteration of the loop over plan_dict["steps"]
StepOutcome(sd) ==
    IF sd.t # "dict" THEN "AttributeError"
    ELSE IF MinRaises(Get(sd, "result_count", mkInt(DEFAULT_RESULT_COUNT))) THEN "TypeError"
    ELSE "ok"

PlanStepCount(rc) == mkInt(Min(rc.v, PLAN_STEP_CAP))

SearchStep(sd, q, today) ==
    LET ds0 == Get(sd, "date_start", None)
        de0 == Get(sd, "date_end", None)
        rel == Truthy(ds0) /\ HasPlaceholder(ds0)
        dr == extract_date_range(q, today)
    IN  [step_type |-> Get(sd, "step_type", mkStr("broad_search")),
         purpose |-> Get(sd, "purpose", mkStr("Search")),
         semantic_query |-> Get(sd, "semantic_query", None),
         result_count |-> PlanStepCount(Get(sd, "result_count", mkInt(DEFAULT_RESULT_COUNT))),
         detail_level |-> Get(sd, "detail_level", mkStr("summary")),
         themes |-> Get(sd, "themes", None),
         brands |-> Get(sd, "brands", None),
         date_start |-> IF rel THEN dr[1] ELSE ds0,
         date_end |-> IF rel THEN dr[2] ELSE de0,
         case_numbers |-> Get(sd, "case_numbers", None),
         aggregation_type |-> Get(sd, "aggregation_type", None),
         use_prior_results |-> Get(sd, "use_prior_results", mkBool(FALSE))]

\* a planner that keeps every step of the response
KeepAllSteps(steps) == steps

\* steps = steps[:4]
LimitSteps(steps) == FirstN(steps, MAX_PLAN_STEPS)

\* _create_compound_plan: [raised, plan]; raised is an exception leaving the method
create_compound_plan(q, today, resp) ==
    IF resp.k = "raise" THEN [raised |-> TRUE, plan |-> NonCompound(q)]
    ELSE IF resp.k \in {"no_json", "bad_json"} THEN [raised |-> FALSE, plan |-> NonCompound(q)]
    ELSE IF ~Truthy(Get(resp.d, "is_compound", mkBool(FALSE)))
    THEN [raised |-> FALSE, plan |-> NonCompound(q)]
    ELSE LET sv == Get(resp.d, "steps", mkList(<<>>))
         IN  IF sv.t # "list"
             THEN \* iterating a value that is no list: TypeError, caught in the method
                  [raised |-> FALSE, plan |-> NonCompound(q)]
             ELSE LET dicts == sv.v
                      bad == {i \in 1..Len(dicts) : StepOutcome(dicts[i]) # "ok"}
                      first == CHOOSE i \in bad : \A j \in bad : i <= j
                  IN  IF bad # {}
                      THEN IF StepOutcome(dicts[first]) = "AttributeError"
                           THEN [raised |-> TRUE, plan |-> NonCompound(q)]
                           ELSE [raised |-> FALSE, plan |-> NonCompound(q)]
                      ELSE [raised |-> FALSE,
                            plan |-> [kind |-> "compound", is_compound |-> TRUE,
                                      steps |-> LimitSteps([i \in 1..Len(dicts) |-> SearchStep(dicts[i], q, today)]),
                                      synthesis_strategy |-> Get(resp.d, "synthesis_strategy", mkStr("hierarchical")),
                                      original_query |-> q]]

\* a guarded call without its handler: the exception leaves QueryAgent.process
unguarded(r) == [raised |-> r.raised, failed |-> FALSE, plan |-> r.plan]

\* try: ... except Exception: the exception of the guarded call is swallowed and
\* QueryAgent.process goes on with the next stage
try_except(r) == [raised |-> FALSE, failed |-> r.raised, plan |-> r.plan]

PlanDict(qt, cn, sq, rc, dl, ds, de, th, br, at) ==
    [query_type |-> qt, case_number |-> cn, semantic_query |-> sq, result_count |-> rc,
     detail_level |-> dl, date_start |-> ds, date_end |-> de, themes |-> th,
     brands |-> br, aggregation_type |-> at]

llm_fallback_plan(q) ==
    QueryPlan(mkStr("broad_search"), None, mkText(q), mkInt(LLM_FALLBACK_RESULT_COUNT),
              mkStr("summary"), None, None, None, None, None)

\* _process_with_llm: [raised, plan]
process_with_llm(q, today, resp) ==
    IF resp.k = "raise" THEN [raised |-> TRUE, plan |-> llm_fallback_plan(q)]
    ELSE IF resp.k \in {"no_json", "bad_json"} THEN [raised |-> FALSE, plan |-> llm_fallback_plan(q)]
    ELSE LET d == resp.d
             ds0 == Get(d, "date_start", None)
             rel == Truthy(ds0) /\ HasPlaceholder(ds0)
             dr == extract_date_range(q, today)
             ds == IF rel THEN dr[1] ELSE ds0
             de == IF rel THEN (IF Truthy(dr[2]) THEN dr[2] ELSE mkDate(today))
                   ELSE Get(d, "date_end", None)
         IN  [raised |-> FALSE,
              plan |-> QueryPlan(Get(d, "query_type", mkStr("broad_search")),
                                 Get(d, "case_number", None),
                                 Get(d, "semantic_query", mkText(q)),
                                 Get(d, "result_count", mkInt(DEFAULT_RESULT_COUNT)),
                                 Get(d, "detail_level", mkStr("summary")),
                                 ds, de,
                                 Get(d, "themes", None),
                                 Get(d, "brands", None),
                                 Get(d, "aggregation_type", None))]


(***************************************************************************)
(* VectorStore reads.  The collection is a sequence of stored cases in the *)
(* order the engine ranks them; a read builds fresh case dictionaries.     *)
(***************************************************************************)
StoredCase(id, cn, th, br, created, outcome, sentiment) ==
    [id |-> id, case_number |-> cn, theme |-> th, brand |-> br,
     created_at |-> created, outcome |-> outcome, sentiment |-> sentiment]

\* the dictionary a read returns for a stored case; the provenance tags are absent
CaseDict(c) ==
    [id |-> c.id, case_number |-> c.case_number, theme |-> c.theme, brand |-> c.brand,
     created_at |-> c.created_at, outcome |-> c.outcome,
     detail_level |-> Absent, step_purpose |-> Absent]

IsStr(v, s) == v.t = "str" /\ v.v = s

\* ISO date strings compare as text: a digit sorts before "<"
DateBefore(a, b) ==
    IF a.t = "date" /\ b.t = "date" THEN a.v < b.v
    ELSE IF a.t = "date" THEN TRUE
    ELSE FALSE

RECURSIVE SelectCases(_, _)
SelectCases(coll, keep) ==
    IF coll = <<>> THEN <<>>
    ELSE IF keep[Head(coll).id] THEN <<CaseDict(Head(coll))>> \o SelectCases(Tail(coll), keep)
         ELSE SelectCases(Tail(coll), keep)

Ids(coll) == {coll[i].id : i \in 1..Len(coll)}

RECURSIVE DateFilter(_, _, _)
DateFilter(cs, start_date, end_date) ==
    IF cs = <<>> THEN <<>>
    ELSE LET c == Head(cs)
             drop == /\ Truthy(start_date) \/ Truthy(end_date)
                     /\ Truthy(c.created_at)
                     /\ \/ Truthy(start_date) /\ DateBefore(c.created_at, start_date)
                        \/ Truthy(end_date) /\ DateBefore(end_date, c.created_at)
         IN  IF drop THEN DateFilter(Tail(cs), start_date, end_date)
             ELSE <<c>> \o DateFilter(Tail(cs), start_date, end_date)

\* VectorStore.search: [raised, cases]; the engine refuses a count that is no positive integer
search(coll, up, n_results, start_date, end_date, theme, brands) ==
    IF ~up \/ n_results.t # "int" \/ n_results.v <= 0 THEN [raised |-> TRUE, cases |-> <<>>]
    ELSE LET keep == [id \in Ids(coll) |->
                         LET c == CHOOSE x \in Range(coll) : x.id = id
                         IN  /\ Truthy(theme) => c.theme = theme.v
                             /\ Truthy(brands) => c.brand \in Range(brands.v)]
             ranked == FirstN(SelectCases(coll, keep), n_results.v)
         IN  [raised |-> FALSE, cases |-> DateFilter(ranked, start_date, end_date)]

\* a lookup that answers with the best-ranked case when no case has the number
get_nearest_case(coll, cn) ==
    LET hits == {i \in 1..Len(coll) : cn.t = "int" /\ coll[i].case_number = cn.v}
    IN  IF hits # {} THEN <<CaseDict(coll[CHOOSE i \in hits : \A j \in hits : i <= j])>>
        ELSE IF coll # <<>> THEN <<CaseDict(coll[1])>>
        ELSE <<>>

\* VectorStore.get_by_case_number: the first stored case with that number, as a list of 0 or 1
get_by_case_number(coll, cn) ==
    LET keep == [id \in Ids(coll) |->
                    LET c == CHOOSE x \in Range(coll) : x.id = id
                    IN  cn.t = "int" /\ c.case_number = cn.v]
    IN  FirstN(SelectCases(coll, keep), 1)

\* a count of the cases that have a case number
count_numbered_cases(coll) == Len(SelectSeq(coll, LAMBDA c : c.case_number # 0))

get_case_count(coll) == Len(coll)

OrUnknown(s) == IF s = "" THEN "Unknown" ELSE s

\* where sorted(..., key=lambda x: -x[1]) puts an item: behind the items that count as
\* much or more
RECURSIVE InsertByCount(_, _)
InsertByCount(items, item) ==
    IF items = <<>> THEN <<item>>
    ELSE IF Head(items).count >= item.count THEN <<Head(items)>> \o InsertByCount(Tail(items), item)
         ELSE <<item>> \o items

\* sorted(d.items(), key=lambda x: -x[1]): by falling count, equal counts in the order
\* of the dictionary
RECURSIVE SortByCount(_)
SortByCount(items) ==
    IF items = <<>> THEN <<>>
    ELSE InsertByCount(SortByCount(SubSeq(items, 1, Len(items) - 1)), items[Len(items)])

RECURSIVE FirstSeen(_, _)
\* the keys of counts, in the order the loop over the stored cases inserted them
FirstSeen(keys, seen) ==
    IF keys = <<>> THEN <<>>
    ELSE IF Head(keys) \in seen THEN FirstSeen(Tail(keys), seen)
         ELSE <<Head(keys)>> \o FirstSeen(Tail(keys), seen \cup {Head(keys)})

\* counts[key] = counts.get(key, 0) + 1 over the keys of the stored cases, then
\* dict(sorted(counts.items(), key=lambda x: -x[1])): the dictionary as its items in order
CountBy(keys) ==
    LET ks == FirstSeen(keys, {})
    IN  SortByCount([j \in 1..Len(ks) |->
                        [key |-> ks[j],
                         count |-> Cardinality({i \in 1..Len(keys) : keys[i] = ks[j]})]])

ThemeKey(c) == OrUnknown(c.theme)
BrandKey(c) == OrUnknown(c.brand)
\* metadata.get("sentiment") or "Unknown", numbers turned to text
SentimentKey(c) == IF c.sentiment = 0 THEN "Unknown" ELSE IF c.sentiment > 0 THEN "1" ELSE "-1"

count_by_theme(coll) == CountBy([i \in 1..Len(coll) |-> ThemeKey(coll[i])])
count_by_brand(coll) == CountBy([i \in 1..Len(coll) |-> BrandKey(coll[i])])
count_by_field_sentiment(coll) == CountBy([i \in 1..Len(coll) |-> SentimentKey(coll[i])])

\* sorted(set(...)) of the non-empty themes and brands; the model's names sort in store order
RECURSIVE Distinct(_, _)
Distinct(names, seen) ==
    IF names = <<>> THEN <<>>
    ELSE IF Head(names) = "" \/ Head(names) \in seen THEN Distinct(Tail(names), seen)
         ELSE <<Head(names)>> \o Distinct(Tail(names), seen \cup {Head(names)})

get_all_themes(coll) == Distinct([i \in 1..Len(coll) |-> coll[i].theme], {})
get_all_brands(coll) == Distinct([i \in 1..Len(coll) |-> coll[i].brand], {})

(***************************************************************************)
(* Orchestrator.                                                           *)
(***************************************************************************)
\* UI filters that only fill the fields the classifier left empty
fill_missing_filters(p, f) ==
    [p EXCEPT !.themes = IF Truthy(f.theme) /\ ~Truthy(@) THEN mkList(<<f.theme.v>>) ELSE @,
              !.brands = IF Truthy(f.brands) /\ ~Truthy(@) THEN f.brands ELSE @,
              !.date_start = IF Truthy(f.start_date) /\ ~Truthy(@) THEN f.start_date ELSE @,
              !.date_end = IF Truthy(f.end_date) /\ ~Truthy(@) THEN f.end_date ELSE @]

\* the UI filters overwrite the fields of a plan or of a step
apply_ui_filters(p, f) ==
    [p EXCEPT !.themes = IF Truthy(f.theme) THEN mkList(<<f.theme.v>>) ELSE @,
              !.brands = IF Truthy(f.brands) THEN f.brands ELSE @,
              !.date_start = IF Truthy(f.start_date) THEN f.start_date ELSE @,
              !.date_end = IF Truthy(f.end_date) THEN f.end_date ELSE @]

\* themes[0] if themes else None: [raised, v]
first_theme(themes) ==
    IF ~Truthy(themes) THEN [raised |-> FALSE, v |-> None]
    ELSE IF themes.t = "list" THEN [raised |-> FALSE, v |-> mkStr(themes.v[1])]
    ELSE [raised |-> TRUE, v |-> None]

\* a value the code passes as brands= that is no list cannot be filtered on
brands_ok(brands) == ~Truthy(brands) \/ brands.t = "list"

AggregationTypes == {"count_by_brand", "sentiment_distribution", "count_by_case_type", "count_by_case_topic"}

\* _execute_aggregation and _execute_aggregation_step: [raised, data]
execute_aggregation(coll, up, agg_type) ==
    IF ~up THEN [raised |-> TRUE, data |-> None]
    ELSE IF IsStr(agg_type, "count_by_brand")
    THEN [raised |-> FALSE,
          data |-> [total_cases |-> get_case_count(coll), name |-> "brand_distribution",
                    distribution |-> count_by_brand(coll)]]
    ELSE IF IsStr(agg_type, "sentiment_distribution")
    THEN [raised |-> FALSE,
          data |-> [total_cases |-> get_case_count(coll), name |-> "sentiment_distribution",
                    distribution |-> count_by_field_sentiment(coll)]]
    ELSE IF IsStr(agg_type, "count_by_case_type") \/ IsStr(agg_type, "count_by_case_topic")
    THEN \* VectorStore has no count_by_case_type and no count_by_case_topic: AttributeError
         [raised |-> TRUE, data |-> None]
    ELSE [raised |-> FALSE,
          data |-> [total_cases |-> get_case_count(coll), name |-> "theme_distribution",
                    distribution |-> count_by_theme(coll)]]

SearchCall(n, ds, de, th, br) ==
    [n_results |-> n, start_date |-> ds, end_date |-> de, theme |-> th, brands |-> br]

\* a plan's or step's search: [raised, cases, calls]
plan_search(coll, up, p, n) ==
    LET th == first_theme(p.themes)
    IN  IF th.raised \/ ~brands_ok(p.brands) THEN [raised |-> TRUE, cases |-> <<>>, calls |-> <<>>]
        ELSE LET r == search(coll, up, n, p.date_start, p.date_end, th.v, p.brands)
             IN  [raised |-> r.raised, cases |-> r.cases,
                  calls |-> <<SearchCall(n, p.date_start, p.date_end, th.v, p.brands)>>]

\* min(result_count, cap): [raised, v]
capped(rc, cap) ==
    IF rc.t # "int" THEN [raised |-> TRUE, v |-> None]
    ELSE [raised |-> FALSE, v |-> mkInt(Min(rc.v, cap))]

\* what a branch of process_query, lines 120-154, leaves behind: whether it raised, the
\* cases, the aggregation data, the search calls and the point lookups it issued
Executed(raised, cs, agg, calls, lookups) ==
    [raised |-> raised, cases |-> cs, aggregation_data |-> agg, calls |-> calls,
     lookups |-> lookups]

\* process_query, lines 120-154
execute_plan(coll, up, p) ==
    IF IsStr(p.query_type, "specific_case") /\ Truthy(p.case_number)
    THEN IF ~up THEN Executed(TRUE, <<>>, None, <<>>, <<p.case_number>>)
         ELSE Executed(FALSE, get_by_case_number(coll, p.case_number), None, <<>>,
                       <<p.case_number>>)
    ELSE IF IsStr(p.query_type, "aggregation")
    THEN LET a == execute_aggregation(coll, up, p.aggregation_type)
             n == capped(p.result_count, MAX_CONTEXT_CASES_BROAD)
         IN  IF a.raised THEN Executed(TRUE, <<>>, None, <<>>, <<>>)
             ELSE IF ~Truthy(p.semantic_query) THEN Executed(FALSE, <<>>, a.data, <<>>, <<>>)
             ELSE IF n.raised THEN Executed(TRUE, <<>>, a.data, <<>>, <<>>)
             ELSE LET r == plan_search(coll, up, p, n.v)
                  IN  Executed(r.raised, r.cases, a.data, r.calls, <<>>)
    ELSE LET r == plan_search(coll, up, p, p.result_count)
         IN  Executed(r.raised, r.cases, None, r.calls, <<>>)


EmptyResult == [has_cases |-> FALSE, cases |-> <<>>, has_aggregation |-> FALSE, aggregation |-> None]
CasesResult(cs) == [has_cases |-> TRUE, cases |-> cs, has_aggregation |-> FALSE, aggregation |-> None]
AggregationResult(a) == [has_cases |-> FALSE, cases |-> <<>>, has_aggregation |-> TRUE, aggregation |-> a]

\* what _execute_step leaves behind: whether it raised, its result, the search calls and
\* the point lookups it issued, and the step as the call left it
StepDone(raised, result, calls, lookups, step) ==
    [raised |-> raised, result |-> result, calls |-> calls, lookups |-> lookups, step |-> step]

StepRaised(step) == StepDone(TRUE, EmptyResult, <<>>, <<>>, step)

RECURSIVE AppendNew(_, _)
\* for case in prior_cases[:3]: append the case numbers not yet listed
AppendNew(numbers, cs) ==
    IF cs = <<>> THEN numbers
    ELSE LET n == Head(cs).case_number
         IN  IF n # 0 /\ n \notin Range(numbers) THEN AppendNew(Append(numbers, n), Tail(cs))
             ELSE AppendNew(numbers, Tail(cs))

RECURSIVE FromPrior(_, _)
FromPrior(numbers, prior_results) ==
    IF prior_results = <<>> THEN numbers
    ELSE FromPrior(AppendNew(numbers, FirstN(Head(prior_results).result.cases, PRIOR_TOP)),
                   Tail(prior_results))

RECURSIVE FetchEach(_, _)
FetchEach(coll, numbers) ==
    IF numbers = <<>> THEN <<>>
    ELSE get_by_case_number(coll, mkInt(Head(numbers))) \o FetchEach(coll, Tail(numbers))

\* the specific_case branch of _execute_step
execute_specific_case(coll, up, step, prior_results) ==
    LET given == step.case_numbers
        consult == Truthy(step.use_prior_results) /\ Len(prior_results) > 0
    IN  IF Truthy(given) /\ given.t # "list" THEN StepRaised(step)
        ELSE LET start == IF Truthy(given) THEN given.v ELSE <<>>
                 numbers == IF consult THEN FromPrior(start, prior_results) ELSE start
                 \* a non-empty list given by the plan is the list appended to
                 after == IF Truthy(given) THEN [step EXCEPT !.case_numbers = mkList(numbers)] ELSE step
                 wanted == FirstN(numbers, SPECIFIC_STEP_CAP)
             IN  IF ~up /\ wanted # <<>> THEN StepRaised(after)
                 ELSE StepDone(FALSE, CasesResult(FetchEach(coll, wanted)), <<>>,
                               [i \in 1..Len(wanted) |-> mkInt(wanted[i])], after)

\* a step search that asks for the step's result_count as it stands
step_search_uncapped(coll, up, step, cap) ==
    LET r == plan_search(coll, up, step, step.result_count)
    IN  StepDone(r.raised, CasesResult(r.cases), r.calls, <<>>, step)

step_search(coll, up, step, cap) ==
    LET r == plan_search(coll, up, step, mkInt(Min(step.result_count.v, cap)))
    IN  StepDone(r.raised, CasesResult(r.cases), r.calls, <<>>, step)

\* _execute_step
execute_step(coll, up, step, prior_results) ==
    IF IsStr(step.step_type, "database_query")
    THEN \* SearchStep has no group_by attribute: AttributeError
         StepRaised(step)
    ELSE IF IsStr(step.step_type, "aggregation")
    THEN LET a == execute_aggregation(coll, up, step.aggregation_type)
         IN  IF a.raised THEN StepRaised(step)
             ELSE StepDone(FALSE, AggregationResult(a.data), <<>>, <<>>, step)
    ELSE IF IsStr(step.step_type, "broad_search") THEN step_search(coll, up, step, BROAD_STEP_CAP)
    ELSE IF IsStr(step.step_type, "filtered_search") THEN step_search(coll, up, step, FILTERED_STEP_CAP)
    ELSE IF IsStr(step.step_type, "specific_case") THEN execute_specific_case(coll, up, step, prior_results)
    ELSE StepDone(FALSE, EmptyResult, <<>>, <<>>, step)

\* an executor that hands a step the result of the step before it only
prior_results_latest(results) ==
    IF results = <<>> THEN <<>> ELSE <<results[Len(results)]>>

\* line 212: prior_results=step_results, the list of the results so far
prior_results(results) == results

\* tags written through to the stored case: its outcome is overwritten with the purpose
collection_tagged(coll, tagged) ==
    [i \in 1..Len(coll) |->
        IF \E j \in 1..Len(tagged) : tagged[j].id = coll[i].id /\ tagged[j].step_purpose.t = "str"
        THEN [coll[i] EXCEPT !.outcome = "tagged"]
        ELSE coll[i]]

\* lines 219-224: the tags go on the dictionaries the reads built (vector_store.py
\* 199-204 and 288-292), and the collection stays as it was
collection_after(coll, tagged) == coll

\* case["_detail_level"] = step.detail_level; case["_step_purpose"] = step.purpose
tag_cases(cs, step) ==
    [i \in 1..Len(cs) |-> [cs[i] EXCEPT !.detail_level = step.detail_level,
                                        !.step_purpose = step.purpose]]

\* all_aggregations[step.purpose] = result["aggregation"]
RECURSIVE put_aggregation(_, _, _)
put_aggregation(aggs, purpose, data) ==
    IF aggs = <<>> THEN <<[purpose |-> purpose, data |-> data]>>
    ELSE IF Head(aggs).purpose = purpose THEN <<[purpose |-> purpose, data |-> data]>> \o Tail(aggs)
         ELSE <<Head(aggs)>> \o put_aggregation(Tail(aggs), purpose, data)

RECURSIVE dedupe_keep_last(_, _)
\* a deduplication that keeps the last case of each case number
dedupe_keep_last(cs, seen) ==
    IF cs = <<>> THEN <<>>
    ELSE LET n == Head(cs).case_number
             later == \E i \in 1..Len(Tail(cs)) : Tail(cs)[i].case_number = n
         IN  IF n # 0 /\ later THEN dedupe_keep_last(Tail(cs), seen)
             ELSE <<Head(cs)>> \o dedupe_keep_last(Tail(cs), seen)

RECURSIVE dedupe_every_number(_, _)
\* a deduplication that takes "no case number" for a case number like any other
dedupe_every_number(cs, seen) ==
    IF cs = <<>> THEN <<>>
    ELSE LET n == Head(cs).case_number
         IN  IF n \notin seen THEN <<Head(cs)>> \o dedupe_every_number(Tail(cs), seen \cup {n})
             ELSE dedupe_every_number(Tail(cs), seen)

RECURSIVE dedupe(_, _)
\* lines 228-237: the first case of each case number, and every case without one
dedupe(cs, seen) ==
    IF cs = <<>> THEN <<>>
    ELSE LET n == Head(cs).case_number
         IN  IF n # 0 /\ n \notin seen THEN <<Head(cs)>> \o dedupe(Tail(cs), seen \cup {n})
             ELSE IF n = 0 THEN <<Head(cs)>> \o dedupe(Tail(cs), seen)
             ELSE dedupe(Tail(cs), seen)

(***************************************************************************)
(* Inputs of the model.                                                    *)
(***************************************************************************)
TheStore ==
    << StoredCase("c1", 500, "grief", "B1", mkDate(160), "resolved", 1),
       StoredCase("c2", 501, "prayer", "B2", mkDate(120), "open", -1),
       StoredCase("c3", 0, "grief", "B1", mkDate(164), "resolved", 0),
       StoredCase("c4", 0, "", "", mkStr(""), "", 0) >>

\* stores of k brands and half as many cases again, so that some brands count two cases
BrandNames ==
    << "B1", "B2", "B3", "B4", "B5", "B6", "B7", "B8", "B9", "B10", "B11", "B12", "B13", "B14" >>

StoreIds ==
    << "s1", "s2", "s3", "s4", "s5", "s6", "s7", "s8", "s9", "s10", "s11", "s12", "s13", "s14",
       "s15", "s16", "s17", "s18", "s19", "s20", "s21" >>

BrandStore(k) ==
    [i \in 1..(k + k \div 2) |->
        StoredCase(StoreIds[i], 1000 + i, "grief", BrandNames[((i - 1) % k) + 1], mkDate(160),
                   "resolved", 0)]

AggregationQueries ==
    { <<"how many", "brand">>, <<"how many">>, <<"how many", "sentiment">>,
      <<"how many", "brand", "last week">>, <<"how many", "sentiment", "brand">> }

\* 2025-06-15, a Sunday
CurrentDates == {165}

Keywords == {"brand", "sentiment", "trend", "examples"}

KeywordSeqs == UNION {[1..n -> Keywords] : n \in 0..MaxKeywords}

CaseRefs ==
    { <<>>, <<"case", "500">>, <<"Case", "#", "500">>, <<"#", "0500">>,
      <<"case", "number", "12345">>, <<"case", "#", "0">>, <<"case", "number">>,
      <<"#">>, <<"#", "12345", "case", "500">> }

Queries == {r \o k : r \in CaseRefs, k \in KeywordSeqs}

FewQueries ==
    { <<"grief">>, <<"how many", "brand">>, <<"case", "#", "500">>, <<"trend", "examples">>,
      <<"B1", "last week">>, <<"deep dive">> }

\* the phrases _extract_date_range looks for, in the order it looks for them
DatePhrases ==
    << "last 30 days", "past 30 days", "past month", "last week", "past week", "last 7 days",
       "past 7 days", "this week", "this month", "today", "yesterday", "recent" >>

\* a date phrase alone, after a theme, a brand or an aggregation keyword, and every two
\* phrases
DateQueries ==
    { <<>>, <<"grief">>, <<"how many">>, <<"B1">>, <<"B1", "prayer">>, <<"deep dive">> }
    \cup {<<"B1", ph>> : ph \in Range(DatePhrases)}
    \cup {<<ph>> : ph \in Range(DatePhrases)}
    \cup {<<"grief", ph>> : ph \in Range(DatePhrases)}
    \cup {<<"how many", ph>> : ph \in Range(DatePhrases)}
    \cup {<<ph, other>> : ph \in Range(DatePhrases), other \in Range(DatePhrases)}

\* the current dates around 2025-06-15
NearDates == (165 - MaxDayOffset)..(165 + MaxDayOffset)

CompoundQueries == { <<"trend", "examples">>, <<"case", "#", "500", "deep dive">> }

NoFilters == [theme |-> None, brands |-> None, start_date |-> None, end_date |-> None]
AllFilters ==
    [theme |-> mkStr("prayer"), brands |-> mkList(<<"B2">>),
     start_date |-> mkDate(100), end_date |-> mkDate(162)]

UIFilters ==
    [theme : {None, mkStr(""), mkStr("prayer")}, brands : {None, mkList(<<"B2">>)},
     start_date : {None, mkDate(100)}, end_date : {None, mkDate(162)}]

\* steps a planning response may list
BroadStep ==
    StepDict(mkStr("broad_search"), mkStr("Find"), mkStr("grief cases"), mkInt(60),
             mkStr("summary"), mkList(<<"grief">>), Absent, Absent, Absent, Absent, Absent, Absent)
FilteredStep ==
    StepDict(mkStr("filtered_search"), mkStr("Detail"), None, mkInt(30),
             mkStr("full_conversation"), None, mkList(<<"B1">>), mkStr("<30 days ago>"),
             mkStr("<today>"), Absent, Absent, Absent)
PriorCaseStep ==
    StepDict(mkStr("specific_case"), Absent, Absent, Absent, Absent, Absent, Absent, Absent,
             Absent, Absent, Absent, mkBool(TRUE))
AggregationStep ==
    StepDict(mkStr("aggregation"), mkStr("Overview"), None, mkInt(5), mkStr("metadata_only"),
             None, None, None, None, None, mkStr("count_by_brand"), mkBool(FALSE))
SentimentStep ==
    StepDict(mkStr("aggregation"), mkStr("Overview"), None, mkInt(5), mkStr("metadata_only"),
             None, None, None, None, None, mkStr("sentiment_distribution"), mkBool(FALSE))
CaseTypeStep ==
    StepDict(mkStr("aggregation"), Absent, None, mkInt(5), mkStr("metadata_only"),
             None, None, None, None, None, mkStr("count_by_case_type"), mkBool(FALSE))
DatabaseStep ==
    StepDict(mkStr("database_query"), mkStr("Count"), None, mkInt(5), mkStr("summary"),
             None, None, None, None, None, None, mkBool(FALSE))
GivenCasesStep ==
    StepDict(mkStr("specific_case"), mkStr("Lookup"), None, mkInt(2), mkStr("full_conversation"),
             None, None, None, None, mkList(<<501, 500, 500, 7>>), None, mkBool(TRUE))
ShortListStep ==
    StepDict(mkStr("specific_case"), mkStr("Lookup"), None, mkInt(2), mkStr("full_conversation"),
             None, None, None, None, mkList(<<501>>), None, mkBool(TRUE))
BadCasesStep ==
    StepDict(mkStr("specific_case"), mkStr("Lookup"), None, mkInt(2), mkStr("full_conversation"),
             None, None, None, None, mkInt(500), None, mkBool(FALSE))
NullCountStep ==
    StepDict(mkStr("broad_search"), mkStr("Find"), None, None, mkStr("summary"),
             None, None, None, None, None, None, mkBool(FALSE))
MetadataStep ==
    StepDict(mkStr("filtered_search"), mkStr("Skim"), None, mkInt(2), mkStr("metadata_only"),
             mkList(<<"grief">>), None, None, None, None, None, mkBool(FALSE))
UnknownTypeStep ==
    StepDict(mkStr("summarize"), mkStr("Wrap up"), None, mkInt(-1), mkStr("metadata_only"),
             None, None, None, None, None, None, mkBool(FALSE))
NotADict == mkStr("search everything")

CoreSteps == {BroadStep, FilteredStep, PriorCaseStep}
AllSteps ==
    CoreSteps \cup {AggregationStep, SentimentStep, CaseTypeStep, DatabaseStep, GivenCasesStep, ShortListStep,
                    BadCasesStep,
                    NullCountStep, MetadataStep, UnknownTypeStep, NotADict}

StepLists ==
    (UNION {[1..n -> CoreSteps] : n \in 0..MaxSteps}) \cup (UNION {[1..n -> AllSteps] : n \in 0..2})

CompoundDict(steps) ==
    [is_compound |-> mkBool(TRUE), synthesis_strategy |-> mkStr("comparative"), steps |-> steps]

FewPlannerResponses ==
    { Raise, NoJson, BadJson,
      Json([is_compound |-> mkBool(FALSE), synthesis_strategy |-> Absent, steps |-> Absent]),
      Json([is_compound |-> Absent, synthesis_strategy |-> Absent,
            steps |-> mkList(<<BroadStep>>)]),
      Json([is_compound |-> mkBool(TRUE), synthesis_strategy |-> Absent, steps |-> Absent]),
      Json([is_compound |-> mkBool(TRUE), synthesis_strategy |-> Absent, steps |-> None]),
      Json(CompoundDict(mkList(<<BroadStep, FilteredStep>>))) }

PlannerResponses == {Json(CompoundDict(mkList(l))) : l \in StepLists}

ClassifyResponses ==
    { Raise, NoJson, BadJson,
      Json(PlanDict(Absent, Absent, Absent, Absent, Absent, Absent, Absent, Absent, Absent, Absent)),
      Json(PlanDict(mkStr("filtered_search"), None, mkStr("grief concerns"), mkInt(10),
                    mkStr("full_conversation"), None, None, mkList(<<"grief">>), None, None)),
      Json(PlanDict(mkStr("aggregation"), None, None, mkInt(5), mkStr("metadata_only"),
                    mkStr("<30 days ago>"), mkStr("<today>"), None, None, mkStr("count_by_brand"))),
      Json(PlanDict(mkStr("aggregation"), Absent, mkStr("themes"), None, Absent,
                    Absent, Absent, Absent, Absent, mkStr("count_by_theme"))),
      Json(PlanDict(mkStr("aggregation"), Absent, Absent, mkInt(5), Absent,
                    Absent, Absent, Absent, Absent, mkStr("count_by_case_type"))),
      Json(PlanDict(mkStr("specific_case"), Absent, Absent, mkInt(1), mkStr("full_conversation"),
                    Absent, Absent, Absent, Absent, Absent)),
      Json(PlanDict(mkStr("specific_case"), mkInt(501), Absent, mkInt(1), Absent,
                    Absent, Absent, Absent, Absent, Absent)),
      Json(PlanDict(mkStr("broad_search"), mkInt(500), None, mkInt(100), mkStr("summary"),
                    Absent, Absent, mkInt(3), Absent, mkStr("count_by_theme"))),
      Json(PlanDict(None, None, None, mkStr("ten"), None, None, None, None, None, None)) }

NoLlm == [configured |-> FALSE, plan |-> Raise, classify |-> Raise, synth |-> "ok"]
Llm(pl, cl, sy) == [configured |-> TRUE, plan |-> pl, classify |-> cl, synth |-> sy]

FewLlms ==
    { NoLlm,
      Llm(Json(CompoundDict(mkList(<<BroadStep, FilteredStep>>))),
          Json(PlanDict(mkStr("filtered_search"), None, mkStr("grief concerns"), mkInt(10),
                        mkStr("full_conversation"), None, None, mkList(<<"grief">>), None, None)),
          "ok"),
      Llm(Raise, Raise, "raise"),
      Llm(BadJson,
          Json(PlanDict(mkStr("broad_search"), mkInt(500), None, mkInt(100), mkStr("summary"),
                        Absent, Absent, Absent, Absent, mkStr("count_by_theme"))),
          "ok") }

ManyLlms ==
    {NoLlm} \cup {Llm(pl, cl, sy) : pl \in FewPlannerResponses, cl \in ClassifyResponses,
                                    sy \in {"ok", "raise"}}

PlanningLlms == {Llm(pl, Raise, "ok") : pl \in PlannerResponses}

NoPlan == [kind |-> "none"]

\* what process_query has given back: nothing yet, or an exception in place of a result
NoResult == [status |-> "none"]
RaisedResult == [status |-> "raised"]

(***************************************************************************)
(* SprinklrClient.fetch_cases_with_messages_batched.  The server is a list *)
(* of pages, each with its cases (by id, "" for a case without one) and    *)
(* whether a cursor comes with it; cursor 0 is no cursor.  A run of the    *)
(* generator is a record f of its arguments and locals, with the cases it  *)
(* has yielded so far.                                                     *)
(***************************************************************************)
search_cases_v2(pages, cursor) ==
    LET k == IF cursor = 0 THEN 1 ELSE cursor
    IN  IF k > Len(pages) THEN [data |-> <<>>, cursor |-> 0]
        ELSE [data |-> pages[k].data, cursor |-> IF pages[k].more THEN k + 1 ELSE 0]

\* the message ids the server associates with a case
get_case_associated_message_ids(case_id) ==
    IF case_id = "a" THEN <<"m1", "m2">> ELSE IF case_id = "b" THEN <<>> ELSE <<"m3">>

\* _process_case_batch: every case of the batch is yielded with its messages, none when
\* the message requests fail
process_case_batch(batch, messages_up) ==
    [i \in 1..Len(batch) |->
        [id |-> batch[i],
         messages |-> IF messages_up THEN get_case_associated_message_ids(batch[i]) ELSE <<>>]]

\* if max_cases and cases_fetched >= max_cases
max_reached(f) == f.max_cases # 0 /\ f.cases_fetched >= f.max_cases

\* yield from self._process_case_batch(case_batch, ...) when the batch holds a case
flush_batch(f) ==
    IF Len(f.case_batch) > 0
    THEN [f EXCEPT !.yielded = @ \o process_case_batch(f.case_batch, f.messages_up)]
    ELSE f

\* the loop over the cases of one page
RECURSIVE accept_cases(_, _)
accept_cases(f, cs) ==
    IF cs = <<>> \/ max_reached(f) THEN f
    ELSE IF Head(cs) = "" \/ Head(cs) \in f.seen_ids THEN accept_cases(f, Tail(cs))
    ELSE LET g == [f EXCEPT !.seen_ids = @ \cup {Head(cs)},
                            !.case_batch = Append(@, Head(cs)),
                            !.cases_fetched = @ + 1]
             h == IF Len(g.case_batch) >= g.case_batch_size
                  THEN [g EXCEPT !.yielded = @ \o process_case_batch(g.case_batch, g.messages_up),
                                 !.case_batch = <<>>]
                  ELSE g
         IN  accept_cases(h, Tail(cs))

\* one turn of the while loop that passed the check of max_cases
fetch_page(f) ==
    LET r == search_cases_v2(f.pages, f.cursor)
        g == [f EXCEPT !.cursor = r.cursor]
    IN  IF r.data = <<>>
        THEN [flush_batch(g) EXCEPT !.pc = "returned"]
        ELSE LET h == accept_cases(g, r.data)
             IN  IF h.cursor = 0 THEN [flush_batch(h) EXCEPT !.pc = "returned"] ELSE h

NewFetch(pages, max_cases, case_batch_size, messages_up) ==
    [pages |-> pages, max_cases |-> max_cases, case_batch_size |-> case_batch_size,
     messages_up |-> messages_up, pc |-> "loop", cursor |-> 0, cases_fetched |-> 0,
     seen_ids |-> {}, case_batch |-> <<>>, yielded |-> <<>>]

(***************************************************************************)
(* Chatbot.  The history is the list of the roles of its messages.         *)
(***************************************************************************)
Providers == {"anthropic", "openai"}

\* _init_llm_client: the client of the provider, or ValueError without its API key
init_llm_client(provider, keys) ==
    IF provider = "openai"
    THEN IF keys.openai THEN [raised |-> FALSE, client |-> "openai"]
         ELSE [raised |-> TRUE, client |-> "none"]
    ELSE IF keys.anthropic THEN [raised |-> FALSE, client |-> "anthropic"]
         ELSE [raised |-> TRUE, client |-> "none"]

\* Chatbot(provider), for a provider whose key is configured
NewChatbot(provider) ==
    [provider |-> provider, llm_client |-> provider, conversation_history |-> <<>>]

clear_history(cb) == [cb EXCEPT !.conversation_history = <<>>]

\* set_provider: [raised, chatbot]
set_provider(cb, provider, keys) ==
    IF provider # cb.provider
    THEN LET named == [cb EXCEPT !.provider = provider]
             r == init_llm_client(provider, keys)
         IN  IF r.raised THEN [raised |-> TRUE, chatbot |-> named]
             ELSE [raised |-> FALSE, chatbot |-> clear_history([named EXCEPT !.llm_client = r.client])]
    ELSE [raised |-> FALSE, chatbot |-> cb]

\* self.conversation_history[-20:]
LastN(h, n) == IF Len(h) > n THEN SubSeq(h, Len(h) - n + 1, Len(h)) ELSE h

\* chat, lines 220-261: the completion call succeeds (answers) or raises; a client of
\* another provider than self.provider has not the attributes _call_llm asks of it
chat(cb, answers) ==
    LET asked == [cb EXCEPT !.conversation_history = Append(@, "user")]
    IN  IF answers /\ cb.llm_client = cb.provider
        THEN LET told == Append(asked.conversation_history, "assistant")
             IN  [asked EXCEPT !.conversation_history =
                                   IF Len(told) > HISTORY_LIMIT THEN LastN(told, HISTORY_LIMIT) ELSE told]
        ELSE asked

(***************************************************************************)
(* State.                                                                  *)
(***************************************************************************)
VARIABLES
    query, ui, enable_compound, llm, store_up, today,   \* the arguments and collaborators of a call
    store,                                              \* the collection behind the VectorStore
    pc,                                                 \* where process_query stands
    available, plan, step_idx, step_results, all_cases, all_aggregations,
    cases, aggregation_data, result,                    \* its locals and what it returns
    searches,                                           \* the VectorStore.search calls it issued
    lookups,                                            \* its VectorStore.get_by_case_number calls
    context,                                            \* the context built for the synthesis call
    handed,                                             \* the prior_results each _execute_step call got
    llm_calls,                                          \* the completion calls it made, in order
    call_no, first_result,                              \* the caller repeating the call
    fetch,                                              \* a run of fetch_cases_with_messages_batched
    config_keys,                                        \* which API keys the configuration holds
    chatbot,                                            \* the Chatbot of the session
    last_call                                           \* the last call on the Chatbot

inputs == <<query, ui, enable_compound, llm, store_up, today>>
locals == <<available, plan, step_idx, step_results, all_cases, all_aggregations,
            cases, aggregation_data, result, searches, lookups, context, handed, llm_calls>>
pipeline == <<inputs, store, pc, locals, call_no, first_result>>
clients == <<fetch, config_keys, chatbot, last_call>>
vars == <<pipeline, clients>>

NoFetch == NewFetch(<<>>, 0, 1, TRUE)
NoCall == [op |-> "none"]

\* no ingestion runs and the Chatbot of the session is untouched
ClientsIdle ==
    /\ fetch = NoFetch
    /\ config_keys = [anthropic |-> TRUE, openai |-> FALSE]
    /\ chatbot = NewChatbot("anthropic")
    /\ last_call = NoCall

FreshLocals ==
    /\ available = [themes |-> <<>>, brands |-> <<>>]
    /\ plan = NoPlan
    /\ step_idx = 1
    /\ step_results = <<>>
    /\ all_cases = <<>>
    /\ all_aggregations = <<>>
    /\ cases = <<>>
    /\ aggregation_data = None
    /\ result = NoResult
    /\ searches = <<>>
    /\ lookups = <<>>
    /\ context = None
    /\ handed = <<>>
    /\ llm_calls = <<>>

(***************************************************************************)
(* ResponseAgent.                                                          *)
(***************************************************************************)
\* _format_sources: one citation per case, in order
format_source(c) ==
    [id |-> <<"#", c.case_number>>, case_number |-> c.case_number, brand |-> c.brand,
     theme |-> c.theme, date |-> IF Truthy(c.created_at) THEN c.created_at ELSE mkStr(""),
     outcome |-> c.outcome]

\* citations that leave out the cases without a case number
format_sources_numbered(cs) ==
    LET numbered == SelectSeq(cs, LAMBDA c : c.case_number # 0)
    IN  [i \in 1..Len(numbered) |-> format_source(numbered[i])]

format_sources(cs) == [i \in 1..Len(cs) |-> format_source(cs[i])]

\* _build_aggregation_context: the total, the lines of the distribution and the sample cases
build_aggregation_context(agg, cs) ==
    [kind |-> "aggregation",
     total |-> IF agg = None THEN 0 ELSE agg.total_cases,
     listed |-> IF agg = None THEN <<>>
                ELSE FirstN(SortByCount(agg.distribution), CONTEXT_TOP_ITEMS),
     cases |-> FirstN(cs, CONTEXT_SAMPLE_CASES)]

\* ResponseAgent.process, lines 171-185: the context by query type
build_context(p, cs, agg) ==
    IF IsStr(p.query_type, "specific_case") \/ IsStr(p.query_type, "filtered_search")
    THEN [kind |-> "detailed", total |-> Len(cs), listed |-> <<>>, cases |-> cs]
    ELSE IF IsStr(p.query_type, "aggregation") THEN build_aggregation_context(agg, cs)
    ELSE [kind |-> "summary", total |-> Len(cs), listed |-> <<>>, cases |-> cs]

\* ResponseAgent.process_compound, lines 455-479: the aggregations by purpose, then the
\* cases tagged summary, then the cases tagged full_conversation
compound_context(aggs, cs) ==
    [kind |-> "compound",
     total |-> Len(cs),
     listed |-> [i \in 1..Len(aggs) |->
                    [purpose |-> aggs[i].purpose, total |-> aggs[i].data.total_cases,
                     listed |-> FirstN(SortByCount(aggs[i].data.distribution), CONTEXT_TOP_ITEMS)]],
     cases |-> SelectSeq(cs, LAMBDA c : c.detail_level = mkStr("summary"))
               \o SelectSeq(cs, LAMBDA c : c.detail_level = mkStr("full_conversation"))]

\* the text of the answer: the completion's, the diagnostic of _call_llm, or the fallback formatter's
response_text(oracle) ==
    IF oracle.configured THEN (IF oracle.synth = "ok" THEN "completion" ELSE "diagnostic")
    ELSE "fallback"

\* a ResponseAgent that kept the citations of the call before and adds the new ones to them
process_accumulating(oracle, p, cs) ==
    LET kept == IF first_result.status = "returned" THEN first_result.sources ELSE <<>>
    IN  [status |-> "returned", response |-> response_text(oracle),
         cases_found |-> Len(kept) + Len(cs), query_type |-> p.query_type,
         sources |-> kept \o format_sources(cs)]

\* a ResponseAgent that gives up its cases when the synthesis call fails
process_dropping(oracle, p, cs) ==
    LET failed == oracle.configured /\ oracle.synth # "ok"
    IN  [status |-> "returned", response |-> response_text(oracle),
         cases_found |-> IF failed THEN 0 ELSE Len(cs), query_type |-> p.query_type,
         sources |-> IF failed THEN <<>> ELSE format_sources(cs)]

\* ResponseAgent.process
process_response(oracle, p, cs) ==
    [status |-> "returned", response |-> response_text(oracle), cases_found |-> Len(cs),
     query_type |-> p.query_type, sources |-> format_sources(cs)]

\* ResponseAgent.process_compound
process_compound(oracle, cs) ==
    [status |-> "returned", response |-> response_text(oracle), cases_found |-> Len(cs),
     query_type |-> mkStr("compound"), sources |-> format_sources(cs)]



\* Orchestrator.process_query, lines 164-171 and 248-256: the dictionary it returns
final_response(r, p) ==
    [status |-> r.status, response |-> r.response, cases_found |-> r.cases_found,
     query_type |-> r.query_type, sources |-> r.sources, query_plan |-> p]

\* every query against the configurations of the classifier
QueryInputs ==
    /\ query \in Queries
    /\ llm \in FewLlms
    /\ enable_compound \in BOOLEAN
    /\ ui = NoFilters
    /\ store_up = TRUE

\* every planning response against the compound queries
PlanningInputs ==
    /\ query \in CompoundQueries
    /\ llm \in PlanningLlms
    /\ enable_compound = TRUE
    /\ ui \in {NoFilters, AllFilters}
    /\ store_up = TRUE

\* every classification response and every UI filter against a few queries
FilterInputs ==
    /\ query \in FewQueries
    /\ \/ llm \in FewLlms /\ ui \in UIFilters
       \/ llm \in ManyLlms /\ ui \in {NoFilters, AllFilters}
    /\ enable_compound \in BOOLEAN
    /\ store_up \in BOOLEAN

Init ==
    /\ QueryInputs \/ PlanningInputs \/ FilterInputs
    /\ today \in CurrentDates
    /\ store = TheStore
    /\ pc = "idle"
    /\ FreshLocals
    /\ call_no = 1
    /\ first_result = NoResult
    /\ ClientsIdle


(***************************************************************************)
(* Orchestrator.process_query, one action per stretch of the method.       *)
(***************************************************************************)
Raises ==
    /\ pc' = "raised"
    /\ result' = RaisedResult

\* lines 82-90: the vocabularies are read from the store
StartQuery ==
    /\ pc = "idle"
    /\ IF store_up
       THEN /\ available' = [themes |-> get_all_themes(store), brands |-> get_all_brands(store)]
            /\ pc' = "classify"
            /\ UNCHANGED result
       ELSE /\ Raises
            /\ UNCHANGED available
    /\ UNCHANGED <<clients, inputs, store, plan, step_idx, step_results, all_cases, all_aggregations,
                   cases, aggregation_data, searches, lookups, context, handed,
                   call_no, first_result, llm_calls>>

WantsCompound == enable_compound /\ llm.configured /\ needs_compound_strategy(query)

\* QueryAgent.process, lines 266-276: the planning call and what becomes of it
CompoundPlanning ==
    /\ pc = "classify"
    /\ WantsCompound
    /\ LET r == try_except(create_compound_plan(query, today, llm.plan))
       IN  IF r.raised
           THEN /\ Raises
                /\ UNCHANGED plan
           ELSE IF ~r.failed /\ r.plan.is_compound
           THEN /\ plan' = r.plan
                /\ pc' = "steps"
                /\ UNCHANGED result
           ELSE /\ pc' = "fast"
                /\ UNCHANGED <<plan, result>>
    /\ llm_calls' = call_llm(llm_calls, "planning", llm.plan = Raise)
    /\ UNCHANGED <<clients, inputs, store, available, step_idx, step_results, all_cases, all_aggregations,
                   cases, aggregation_data, searches, lookups, context, handed,
                   call_no, first_result>>

\* QueryAgent.process, lines 278-298: the two fast paths
FastPath ==
    /\ pc = "fast" \/ (pc = "classify" /\ ~WantsCompound)
    /\ LET case_number == extract_case_number(query)
       IN  IF Truthy(case_number)
           THEN /\ plan' = specific_case_plan(case_number)
                /\ pc' = "execute"
           ELSE IF is_aggregation_query(query)
           THEN /\ plan' = create_aggregation_plan(query, today)
                /\ pc' = "execute"
           ELSE /\ pc' = IF llm.configured THEN "llm" ELSE "rule"
                /\ UNCHANGED plan
    /\ UNCHANGED <<clients, inputs, store, available, step_idx, step_results, all_cases, all_aggregations,
                   cases, aggregation_data, result, searches, lookups, context, handed,
                   call_no, first_result, llm_calls>>

\* QueryAgent.process, lines 300-308: the classification call
LlmClassify ==
    /\ pc = "llm"
    /\ LET r == try_except(process_with_llm(query, today, llm.classify))
       IN  IF r.raised
           THEN /\ Raises
                /\ UNCHANGED plan
           ELSE IF r.failed
           THEN /\ pc' = "rule"
                /\ UNCHANGED <<plan, result>>
           ELSE /\ plan' = r.plan
                /\ pc' = "execute"
                /\ UNCHANGED result
    /\ llm_calls' = call_llm(llm_calls, "classification", llm.classify = Raise)
    /\ UNCHANGED <<clients, inputs, store, available, step_idx, step_results, all_cases, all_aggregations,
                   cases, aggregation_data, searches, lookups, context, handed,
                   call_no, first_result>>

\* QueryAgent.process, lines 310-331
RuleBased ==
    /\ pc = "rule"
    /\ plan' = rule_based_plan(query, today, available.themes, available.brands)
    /\ pc' = "execute"
    /\ UNCHANGED <<clients, inputs, store, available, step_idx, step_results, all_cases, all_aggregations,
                   cases, aggregation_data, result, searches, lookups, context, handed,
                   call_no, first_result, llm_calls>>

\* lines 108-154: the UI filters, then the plan's retrieval
ExecutePlan ==
    /\ pc = "execute"
    /\ LET p == apply_ui_filters(plan, ui)
           r == execute_plan(store, store_up, p)
       IN  /\ plan' = p
           /\ searches' = searches \o r.calls
           /\ lookups' = lookups \o r.lookups
           /\ IF r.raised
              THEN /\ Raises
                   /\ UNCHANGED <<cases, aggregation_data>>
              ELSE /\ cases' = r.cases
                   /\ aggregation_data' = r.aggregation_data
                   /\ pc' = "respond"
                   /\ UNCHANGED result
    /\ UNCHANGED <<clients, inputs, store, available, step_idx, step_results, all_cases, all_aggregations,
                   context, handed, call_no, first_result, llm_calls>>

\* lines 156-171
Respond ==
    /\ pc = "respond"
    /\ context' = build_context(plan, cases, aggregation_data)
    /\ result' = final_response(process_response(llm, plan, cases), plan)
    /\ llm_calls' = generate_response(llm_calls, llm)
    /\ pc' = "done"
    /\ UNCHANGED <<clients, inputs, store, available, plan, step_idx, step_results, all_cases,
                   all_aggregations, cases, aggregation_data, searches, lookups, handed,
                   call_no, first_result>>

\* _execute_compound_plan, lines 200-226: one turn of the loop over plan.steps
ExecuteStep ==
    /\ pc = "steps"
    /\ step_idx <= Len(plan.steps)
    /\ LET step == apply_ui_filters(plan.steps[step_idx], ui)
           prior == prior_results(step_results)
           r == execute_step(store, store_up, step, prior)
           tagged == tag_cases(r.result.cases, r.step)
       IN  /\ plan' = [plan EXCEPT !.steps[step_idx] = r.step]
           /\ handed' = Append(handed, prior)
           /\ store' = collection_after(store, tagged)
           /\ searches' = searches \o r.calls
           /\ lookups' = lookups \o r.lookups
           /\ IF r.raised
              THEN /\ Raises
                   /\ UNCHANGED <<step_idx, step_results, all_cases, all_aggregations>>
              ELSE /\ step_results' = Append(step_results,
                                             [step |-> r.step, result |-> [r.result EXCEPT !.cases = tagged]])
                   /\ all_cases' = all_cases \o tagged
                   /\ all_aggregations' = IF r.result.has_aggregation
                                          THEN put_aggregation(all_aggregations, r.step.purpose, r.result.aggregation)
                                          ELSE all_aggregations
                   /\ step_idx' = step_idx + 1
                   /\ UNCHANGED <<pc, result>>
    /\ UNCHANGED <<clients, inputs, available, cases, aggregation_data, context, call_no, first_result, llm_calls>>

\* _execute_compound_plan, lines 228-256
Synthesize ==
    /\ pc = "steps"
    /\ step_idx > Len(plan.steps)
    /\ cases' = dedupe(all_cases, {})
    /\ context' = compound_context(all_aggregations, cases')
    /\ result' = final_response(process_compound(llm, cases'), plan)
    /\ llm_calls' = generate_response(llm_calls, llm)
    /\ pc' = "done"
    /\ UNCHANGED <<clients, inputs, store, available, plan, step_idx, step_results, all_cases,
                   all_aggregations, aggregation_data, searches, lookups, handed,
                   call_no, first_result>>

\* the caller calls process_query again with the same arguments
Repeat ==
    /\ pc \in {"done", "raised"}
    /\ call_no = 1
    /\ first_result' = result
    /\ call_no' = 2
    /\ pc' = "idle"
    /\ available' = [themes |-> <<>>, brands |-> <<>>]
    /\ plan' = NoPlan
    /\ step_idx' = 1
    /\ step_results' = <<>>
    /\ all_cases' = <<>>
    /\ all_aggregations' = <<>>
    /\ cases' = <<>>
    /\ aggregation_data' = None
    /\ result' = NoResult
    /\ searches' = <<>>
    /\ lookups' = <<>>
    /\ context' = None
    /\ handed' = <<>>
    /\ llm_calls' = <<>>
    /\ UNCHANGED <<clients, inputs, store>>

Next ==
    \/ StartQuery
    \/ CompoundPlanning
    \/ FastPath
    \/ LlmClassify
    \/ RuleBased
    \/ ExecutePlan
    \/ Respond
    \/ ExecuteStep
    \/ Synthesize
    \/ Repeat

Spec == Init /\ [][Next]_vars

(***************************************************************************)
(* The date phrases: every phrase on the current dates around 2025-06-15,   *)
(* with no completion capability, so that the dates of the plan are the    *)
(* ones _extract_date_range resolved.                                      *)
(***************************************************************************)
DateInit ==
    /\ query \in DateQueries
    /\ today \in NearDates
    /\ llm = NoLlm
    /\ enable_compound \in BOOLEAN
    /\ ui = NoFilters
    /\ store_up = TRUE
    /\ store = TheStore
    /\ pc = "idle"
    /\ FreshLocals
    /\ call_no = 1
    /\ first_result = NoResult
    /\ ClientsIdle

DateNext ==
    \/ StartQuery
    \/ FastPath
    \/ RuleBased
    \/ ExecutePlan
    \/ Respond
    \/ Repeat

DateSpec == DateInit /\ [][DateNext]_vars

(***************************************************************************)
(* Aggregation queries against stores of 0 to MaxBrands brands.            *)
(***************************************************************************)
AggregationInit ==
    /\ query \in AggregationQueries
    /\ store \in {BrandStore(k) : k \in 0..MaxBrands}
    /\ llm \in {NoLlm, Llm(Raise, Raise, "ok"), Llm(Raise, Raise, "raise")}
    /\ enable_compound \in BOOLEAN
    /\ ui = NoFilters
    /\ store_up = TRUE
    /\ today \in CurrentDates
    /\ pc = "idle"
    /\ FreshLocals
    /\ call_no = 1
    /\ first_result = NoResult
    /\ ClientsIdle

AggregationNext ==
    \/ StartQuery
    \/ FastPath
    \/ ExecutePlan
    \/ Respond
    \/ Repeat

AggregationSpec == AggregationInit /\ [][AggregationNext]_vars

(***************************************************************************)
(* Ingestion: fetch_cases_with_messages_batched, consumed to its end as    *)
(* DataIngestion.ingest_from_sprinklr consumes it.                         *)
(***************************************************************************)
PageData == { <<>>, <<"a">>, <<"a", "b">>, <<"b", "a", "c">>, <<"", "c">>, <<"a", "a">> }

ServedPages == [data : PageData, more : BOOLEAN]

PageLists == UNION {[1..n -> ServedPages] : n \in 0..MaxPages}

\* the pipeline is at rest
PipelineIdle ==
    /\ query = <<>>
    /\ ui = NoFilters
    /\ enable_compound = FALSE
    /\ llm = NoLlm
    /\ store_up = TRUE
    /\ today \in CurrentDates
    /\ store = TheStore
    /\ pc = "idle"
    /\ FreshLocals
    /\ call_no = 1
    /\ first_result = NoResult

FetchInit ==
    /\ PipelineIdle
    /\ fetch \in {NewFetch(pages, m, b, up) :
                    pages \in PageLists, m \in 0..MaxLimit, b \in 1..MaxBatch, up \in BOOLEAN}
    /\ config_keys = [anthropic |-> TRUE, openai |-> FALSE]
    /\ chatbot = NewChatbot("anthropic")
    /\ last_call = NoCall

\* lines 782-783: the limit is reached at the top of the loop
FetchStop ==
    /\ fetch.pc = "loop"
    /\ max_reached(fetch)
    /\ fetch' = [fetch EXCEPT !.pc = "returned"]
    /\ UNCHANGED <<pipeline, config_keys, chatbot, last_call>>

\* lines 785-825: one page is asked for and gone through
FetchPage ==
    /\ fetch.pc = "loop"
    /\ ~max_reached(fetch)
    /\ fetch' = fetch_page(fetch)
    /\ UNCHANGED <<pipeline, config_keys, chatbot, last_call>>

FetchNext == FetchStop \/ FetchPage

FetchSpec == FetchInit /\ [][FetchNext]_vars

(***************************************************************************)
(* A session with the Chatbot: questions, provider switches and clearing   *)
(* of the history, in any order.                                           *)
(***************************************************************************)
ChatInit ==
    /\ PipelineIdle
    /\ fetch = NoFetch
    /\ config_keys \in [anthropic : BOOLEAN, openai : BOOLEAN]
    /\ \E p \in Providers :
          /\ ~init_llm_client(p, config_keys).raised
          /\ chatbot = NewChatbot(p)
    /\ last_call = NoCall

Chat ==
    /\ Len(chatbot.conversation_history) < MaxHistory
    /\ \E answers \in BOOLEAN :
          /\ chatbot' = chat(chatbot, answers)
          /\ last_call' = [op |-> "chat"]
    /\ UNCHANGED <<pipeline, fetch, config_keys>>

SetProvider ==
    /\ \E p \in Providers :
          LET r == set_provider(chatbot, p, config_keys)
          IN  /\ chatbot' = r.chatbot
              /\ last_call' = [op |-> "set_provider", provider |-> p, raised |-> r.raised,
                               before |-> chatbot]
    /\ UNCHANGED <<pipeline, fetch, config_keys>>

ClearHistory ==
    /\ chatbot' = clear_history(chatbot)
    /\ last_call' = [op |-> "clear_history"]
    /\ UNCHANGED <<pipeline, fetch, config_keys>>

ChatNext == Chat \/ SetProvider \/ ClearHistory

ChatSpec == ChatInit /\ [][ChatNext]_vars

(***************************************************************************)
(* Properties.                                                             *)
(***************************************************************************)
\* QueryAgent.process has returned: a simple plan is about to be executed, or the
\* steps of a compound plan are
Returned == pc \in {"execute", "steps"}

\* the numbers N the query refers to as "case N", "case #N", "#N" or "case number N"
ReferencedNumbers(q) ==
    LET lq == Lower(q)
        refs == {j \in 2..Len(lq) :
                    /\ lq[j] \in DigitTokens
                    /\ \/ lq[j - 1] \in {"#", "case"}
                       \/ j > 2 /\ lq[j - 1] = "number" /\ lq[j - 2] = "case"}
    IN  {IntOf(lq[j]) : j \in refs}

IsCaseLookup(p, numbers) ==
    /\ p.kind = "simple"
    /\ p.query_type = mkStr("specific_case")
    /\ p.case_number.t = "int"
    /\ p.case_number.v \in numbers
    /\ p.result_count = mkInt(1)

ExpectedAggregationType(q) ==
    IF Contains(Lower(q), "brand") THEN "count_by_brand"
    ELSE IF Contains(Lower(q), "sentiment") THEN "sentiment_distribution"
    ELSE "count_by_theme"

C2_AggregationAlwaysWins ==
    (Returned /\ is_aggregation_query(query) /\ ReferencedNumbers(query) = {}) =>
        /\ plan.kind = "simple"
        /\ plan.query_type = mkStr("aggregation")
        /\ plan.aggregation_type = mkStr(ExpectedAggregationType(query))

\* C2 (amended): a query with an aggregation keyword and no case-number pattern gets a
\* plan of type aggregation, by brand if it holds "brand", else by sentiment if it holds
\* "sentiment", else by theme, unless the compound check, which runs first, produced a
\* compound plan, which is then what is returned.
C2_AggregationFastPath ==
    (Returned /\ is_aggregation_query(query) /\ ReferencedNumbers(query) = {}) =>
        IF pc = "steps"
        THEN WantsCompound /\ plan.kind = "compound" /\ plan.is_compound
        ELSE /\ plan.kind = "simple"
             /\ plan.query_type = mkStr("aggregation")
             /\ plan.aggregation_type = mkStr(ExpectedAggregationType(query))
             /\ plan.case_number = None

\* an aggregation by brand chosen for a query that holds "sentiment" as well
C2_Witness ==
    /\ pc = "execute"
    /\ is_aggregation_query(query)
    /\ ReferencedNumbers(query) = {}
    /\ Contains(Lower(query), "brand")
    /\ Contains(Lower(query), "sentiment")
    /\ plan.aggregation_type = mkStr("count_by_brand")

\* the case numbers among cases; 0 stands for "no case number" in the store
NumbersIn(cs) == {cs[i].case_number : i \in 1..Len(cs)} \ {0}

HasNumber(cs, n) == \E i \in 1..Len(cs) : cs[i].case_number = n

\* the first case with number n
FirstWith(cs, n) == cs[CHOOSE i \in 1..Len(cs) : cs[i].case_number = n /\ \A j \in 1..(i - 1) : cs[j].case_number # n]

\* the first step, in declared order, whose result holds a case with number n
FirstStepWith(n) ==
    CHOOSE k \in 1..Len(step_results) :
        /\ HasNumber(step_results[k].result.cases, n)
        /\ \A j \in 1..(k - 1) : ~HasNumber(step_results[j].result.cases, n)

\* C3: at the end of a compound run every case number that any step returned is cited
\* exactly once, and the case kept for it is the one of the first step, in declared
\* order, that returned it, carrying that step's detail level and purpose.
C3_FirstStepWins ==
    (pc = "done" /\ plan.kind = "compound") =>
        \A n \in NumbersIn(all_cases) :
            LET first == step_results[FirstStepWith(n)]
                kept == FirstWith(cases, n)
            IN  /\ Cardinality({i \in 1..Len(result.sources) : result.sources[i].case_number = n}) = 1
                /\ Cardinality({i \in 1..Len(cases) : cases[i].case_number = n}) = 1
                /\ kept = FirstWith(first.result.cases, n)
                /\ kept.detail_level = first.step.detail_level
                /\ kept.step_purpose = first.step.purpose

\* a finished compound run in which two steps of different detail level and purpose both
\* returned case 500
C3_Witness ==
    /\ pc = "done"
    /\ plan.kind = "compound"
    /\ \E k1 \in 1..Len(step_results) : \E k2 \in 1..Len(step_results) :
          /\ k1 < k2
          /\ HasNumber(step_results[k1].result.cases, 500)
          /\ HasNumber(step_results[k2].result.cases, 500)
          /\ step_results[k1].step.detail_level # step_results[k2].step.detail_level
          /\ step_results[k1].step.purpose # step_results[k2].step.purpose

\* C4: every VectorStore.search call of a run, for a simple plan and for each step of a
\* compound plan, carries the theme, brands, start date and end date the UI supplied,
\* whatever the classifier inferred for them.
C4_UiFiltersOverride ==
    \A i \in 1..Len(searches) :
        /\ Truthy(ui.theme) => searches[i].theme = ui.theme
        /\ Truthy(ui.brands) => searches[i].brands = ui.brands
        /\ Truthy(ui.start_date) => searches[i].start_date = ui.start_date
        /\ Truthy(ui.end_date) => searches[i].end_date = ui.end_date

\* the rule-based classifier inferred theme "grief" from the query, the UI asked for
\* "prayer", and the search went out with "prayer"
C4_Witness ==
    /\ pc = "respond"
    /\ ~llm.configured
    /\ detect_themes(query, available.themes) = <<"grief">>
    /\ ui.theme = mkStr("prayer")
    /\ Len(searches) = 1
    /\ searches[1].theme = mkStr("prayer")

\* C5 (as stated): process_query never ends in an exception.
C5_NeverRaises == pc # "raised"

Classifying == pc \in {"classify", "fast", "llm", "rule"}

\* C6: no step of QueryAgent.process ends in an exception, whatever the completion
\* capability answers, and what it hands back is a QueryPlan or a CompoundQueryPlan.
C6_ClassifierNeverRaises ==
    [][Classifying =>
          /\ pc' # "raised"
          /\ pc' \in {"execute", "steps"} => plan'.kind \in {"simple", "compound"}]_vars

\* both completion calls raised and the default broad search came back
C6_Witness ==
    /\ pc = "execute"
    /\ WantsCompound
    /\ llm.plan = Raise
    /\ llm.classify = Raise
    /\ plan.query_type = mkStr("broad_search")
    /\ plan.result_count = mkInt(BROAD_RESULT_COUNT)

\* C7 (as stated): in a compound plan handed back by QueryAgent.process every step's
\* result_count is within the cap of its type: 50 broad_search, 10 filtered_search,
\* 3 specific_case.
C7_StepCountsWithinTypeCaps ==
    (pc = "steps" /\ step_idx = 1) =>
        \A i \in 1..Len(plan.steps) :
            LET st == plan.steps[i]
            IN  /\ st.step_type = mkStr("broad_search") => st.result_count.v <= 50
                /\ st.step_type = mkStr("filtered_search") => st.result_count.v <= 10
                /\ st.step_type = mkStr("specific_case") => st.result_count.v <= 3

\* the steps the planning response lists
ListedSteps == Get(llm.plan.d, "steps", mkList(<<>>)).v

\* C8: a compound plan never has more than 4 steps, and the plan QueryAgent.process
\* hands back holds the first four steps of the planning response, in its order.
C8_AtMostFourSteps ==
    /\ plan.kind = "compound" => Len(plan.steps) <= 4
    /\ (pc = "steps" /\ step_idx = 1) =>
          /\ Len(plan.steps) = Min(Len(ListedSteps), 4)
          /\ \A i \in 1..Len(plan.steps) : plan.steps[i] = SearchStep(ListedSteps[i], query, today)

\* a response that listed five steps or more was cut to four
C8_Witness ==
    /\ pc = "steps"
    /\ step_idx = 1
    /\ Len(ListedSteps) > 4
    /\ Len(plan.steps) = 4

\* C9 (as stated): in every simple plan handed back by QueryAgent.process, case_number
\* is set exactly when the type is specific_case and aggregation_type is set exactly
\* when the type is aggregation.
C9_FieldsMatchType ==
    pc = "execute" =>
        /\ plan.case_number # None <=> plan.query_type = mkStr("specific_case")
        /\ plan.aggregation_type # None <=> plan.query_type = mkStr("aggregation")

Succeeding(oracle) == [oracle EXCEPT !.synth = "ok"]

\* C11: when the synthesis call fails, ResponseAgent.process and process_compound still
\* return a result: its text is the diagnostic of _call_llm, and cases_found and sources
\* are what a successful call would have given, the number of the cases and one citation
\* per case.
C11_SynthesisFailureKeepsSources ==
    (pc = "done" /\ llm.configured /\ llm.synth = "raise") =>
        LET ok == IF plan.kind = "compound" THEN process_compound(Succeeding(llm), cases)
                  ELSE process_response(Succeeding(llm), plan, cases)
        IN  /\ result.status = "returned"
            /\ result.response = "diagnostic"
            /\ ok.response = "completion"
            /\ result.cases_found = ok.cases_found
            /\ result.sources = ok.sources
            /\ result.query_type = ok.query_type
            /\ result.cases_found = Len(cases)
            /\ result.sources = format_sources(cases)

\* a simple run whose synthesis call failed and that still cites the cases it found
C11_Witness ==
    /\ pc = "done"
    /\ plan.kind = "simple"
    /\ llm.configured
    /\ llm.synth = "raise"
    /\ result.response = "diagnostic"
    /\ Len(cases) > 0
    /\ Len(result.sources) = Len(cases)

\* a simple plan of type specific_case whose case number is a number other than 0
\* (0 is what the store keeps for a case without a number)
IsNumberedLookup(p) ==
    /\ p.kind = "simple"
    /\ IsStr(p.query_type, "specific_case")
    /\ p.case_number.t = "int"
    /\ p.case_number.v # 0

\* the stored cases with number n
Holding(n) == {i \in 1..Len(store) : store[i].case_number = n}

\* C12: for a specific_case plan with case number N, process_query issues one point
\* lookup, for N, and no search, and does not end in an exception.  If the store holds
\* a case with number N the result has query_type specific_case, cases_found 1 and one
\* citation, with id "#N" and that case's theme and outcome; if not, cases_found is 0
\* and the citations are empty.
C12_SpecificCaseLookup ==
    IsNumberedLookup(plan) =>
        LET n == plan.case_number.v
        IN  /\ pc # "raised"
            /\ pc \in {"respond", "done"} => (lookups = <<mkInt(n)>> /\ searches = <<>>)
            /\ pc = "done" =>
                  /\ result.status = "returned"
                  /\ result.query_type = mkStr("specific_case")
                  /\ IF Holding(n) # {}
                     THEN LET held == store[CHOOSE i \in Holding(n) : \A j \in Holding(n) : i <= j]
                          IN  /\ result.cases_found = 1
                              /\ Len(result.sources) = 1
                              /\ result.sources[1].id = <<"#", n>>
                              /\ result.sources[1].theme = held.theme
                              /\ result.sources[1].outcome = held.outcome
                     ELSE /\ result.cases_found = 0
                          /\ result.sources = <<>>

\* a lookup of case 500, which the store holds, that came back with its one citation
C12_Witness ==
    /\ pc = "done"
    /\ IsNumberedLookup(plan)
    /\ plan.case_number.v = 500
    /\ Holding(500) # {}
    /\ lookups = <<mkInt(500)>>
    /\ result.cases_found = 1
    /\ result.sources[1].id = <<"#", 500>>

\* the dates a simple plan carries
PlanRange(p) == <<p.date_start, p.date_end>>

\* the query holds none of the phrases _extract_date_range looks for before "this week"
NothingBeforeThisWeek(ql) == \A i \in 1..7 : ~Contains(ql, DatePhrases[i])

\* C13: the date range of a query is a function of the query and the current date d
\* alone.  "last 30 days" gives (d - 30, d); "this week" gives (m, d) with m the Monday
\* of d's week: a Monday (day 5, 2025-01-06, is one), m <= d and d - m <= 6.  On
\* 2025-06-15 (day 165, a Sunday) these are (2025-05-16, 2025-06-15), days 135 and 165,
\* and the start 2025-06-09, day 159.  A second call with the same arguments resolves
\* the same range.
C13_DateRangeIsAFunction ==
    (pc \in {"execute", "respond", "done"} /\ plan.kind = "simple") =>
        LET ql == Lower(query)
            range == PlanRange(plan)
        IN  /\ Contains(ql, "last 30 days") =>
                  /\ range = <<mkDate(today - 30), mkDate(today)>>
                  /\ today = 165 => range = <<mkDate(135), mkDate(165)>>
            /\ (Contains(ql, "this week") /\ NothingBeforeThisWeek(ql)) =>
                  /\ range[1].t = "date"
                  /\ range[1].v % 7 = 5
                  /\ range[1].v <= today
                  /\ today - range[1].v <= 6
                  /\ range[2] = mkDate(today)
                  /\ today = 165 => range[1] = mkDate(159)
            /\ range = extract_date_range(query, today)
            /\ (call_no = 2 /\ pc = "done" /\ first_result.status = "returned") =>
                  range = PlanRange(first_result.query_plan)

\* "this week" asked on Sunday 2025-06-15, resolved a second time to the week that
\* started on Monday 2025-06-09
C13_Witness ==
    /\ pc = "done"
    /\ call_no = 2
    /\ today = 165
    /\ query = <<"this week">>
    /\ PlanRange(plan) = <<mkDate(159), mkDate(165)>>
    /\ PlanRange(first_result.query_plan) = PlanRange(plan)

RECURSIVE SumOfCounts(_)
SumOfCounts(items) ==
    IF items = <<>> THEN 0 ELSE Head(items).count + SumOfCounts(Tail(items))

\* the brands of the stored cases, "Unknown" for a case without one
StoredBrands == {BrandKey(store[i]) : i \in 1..Len(store)}

\* C14 (as stated): a query that asks how many cases per brand ends with query_type
\* aggregation and aggregation_type count_by_brand, and the aggregation context built
\* for the synthesis lists every brand of the store, however many there are, with the
\* number of its cases, the listed counts summing to total_cases.
C14_ContextListsEveryBrand ==
    (pc = "done" /\ Contains(Lower(query), "how many") /\ Contains(Lower(query), "brand")) =>
        /\ result.query_type = mkStr("aggregation")
        /\ result.query_plan.aggregation_type = mkStr("count_by_brand")
        /\ context.kind = "aggregation"
        /\ context.total = Len(store)
        /\ \A b \in StoredBrands :
              \E j \in 1..Len(context.listed) :
                  /\ context.listed[j].key = b
                  /\ context.listed[j].count =
                         Cardinality({i \in 1..Len(store) : BrandKey(store[i]) = b})
        /\ SumOfCounts(context.listed) = context.total

\* the dictionaries a read of the collection as it was at construction can return
AsStored == {CaseDict(TheStore[j]) : j \in 1..Len(TheStore)}

Untagged(c) == [c EXCEPT !.detail_level = Absent, !.step_purpose = Absent]

\* C15: the pipeline only reads the store.  Through any sequence of process_query calls,
\* simple or compound, returning or raising, the collection is the one it was at
\* construction; and every case a read returned, in a simple run or in a step of a
\* compound run, is the stored case as it was, whatever tags earlier steps had put on
\* their own copy of it: it carries the tags of the step that read it and no others.
C15_StoreOnlyRead ==
    /\ store = TheStore
    /\ \A i \in 1..Len(cases) : Untagged(cases[i]) \in AsStored
    /\ plan.kind = "simple" => \A i \in 1..Len(cases) : cases[i] \in AsStored
    /\ \A k \in 1..Len(step_results) :
          LET st == step_results[k].step
              cs == step_results[k].result.cases
          IN  \A i \in 1..Len(cs) :
                  /\ Untagged(cs[i]) \in AsStored
                  /\ cs[i].detail_level = st.detail_level
                  /\ cs[i].step_purpose = st.purpose

\* the second call of a compound run has ended; in it a step looked case 500 up after
\* an earlier step had returned and tagged it
C15_Witness ==
    /\ pc = "done"
    /\ call_no = 2
    /\ plan.kind = "compound"
    /\ \E k1 \in 1..Len(step_results) : \E k2 \in 1..Len(step_results) :
          /\ k1 < k2
          /\ HasNumber(step_results[k1].result.cases, 500)
          /\ HasNumber(step_results[k2].result.cases, 500)
          /\ step_results[k2].step.step_type = mkStr("specific_case")
          /\ step_results[k1].step.purpose # step_results[k2].step.purpose

\* a step without the list of case numbers a specific_case step appends to
WithoutNumbers(st) == [st EXCEPT !.case_numbers = None]

\* C16: the steps of a compound plan run in declared order, one at a time.  The k-th
\* result is the result of the k-th step the planner listed, step k + 1 is called only
\* when k results are in, and the prior_results handed to the k-th call are exactly the
\* results of the calls 1..k-1, in that order.
C16_StepsInDeclaredOrder ==
    (plan.kind = "compound" /\ pc \in {"steps", "done", "raised"}) =>
        /\ Len(handed) \in {Len(step_results), Len(step_results) + 1}
        /\ pc = "steps" => (step_idx = Len(step_results) + 1 /\ Len(handed) = Len(step_results))
        /\ pc = "done" => (Len(step_results) = Len(plan.steps) /\ Len(handed) = Len(plan.steps))
        /\ pc = "raised" => Len(handed) = Len(step_results) + 1
        /\ \A k \in 1..Len(handed) : handed[k] = SubSeq(step_results, 1, k - 1)
        /\ \A k \in 1..Len(step_results) :
              /\ step_results[k].step = plan.steps[k]
              /\ WithoutNumbers(step_results[k].step) =
                     WithoutNumbers(apply_ui_filters(SearchStep(ListedSteps[k], query, today), ui))

\* a run of four steps has ended; its last step, which draws on prior results, was
\* handed the results of the three steps before it
C16_Witness ==
    /\ pc = "done"
    /\ plan.kind = "compound"
    /\ Len(step_results) = 4
    /\ Truthy(step_results[4].step.use_prior_results)
    /\ handed[4] = SubSeq(step_results, 1, 3)
    /\ Len(step_results[1].result.cases) > 0

\* the plan QueryAgent.process hands back is the one the classification stage made:
\* no fast path took the query and no compound plan was made for it
ClassifiedByLlm ==
    /\ pc = "execute"
    /\ llm.configured
    /\ ~Truthy(extract_case_number(query))
    /\ ~is_aggregation_query(query)

\* C17 (as stated): with a completion capability configured, a classification response
\* that holds no JSON object, or JSON that does not parse, leaves QueryAgent.process
\* with the plan of the rule-based fallback: filtered_search / 10 / full_conversation
\* with the detected themes, brands and date range if any was detected, else
\* broad_search / 100 with the resolved date range; as when the call raises.
C17_UnparseableFallsToRules ==
    (ClassifiedByLlm /\ llm.classify.k \in {"no_json", "bad_json"}) =>
        plan = rule_based_plan(query, today, available.themes, available.brands)

\* the candidates of the k-th step as C18 has them: the case numbers the planner listed
\* for it when it listed any, else, if the step draws on prior results, the numbers of
\* the first three cases of each prior step
ClaimedCandidates(k) ==
    LET declared == SearchStep(ListedSteps[k], query, today)
    IN  IF Truthy(declared.case_numbers) THEN declared.case_numbers.v
        ELSE IF Truthy(declared.use_prior_results) THEN FromPrior(<<>>, handed[k])
        ELSE <<>>

RECURSIVE ClaimedLookups(_)
\* the point lookups of the steps 1..k, were the first three claimed candidates fetched
ClaimedLookups(k) ==
    IF k = 0 THEN <<>>
    ELSE LET wanted == FirstN(ClaimedCandidates(k), SPECIFIC_STEP_CAP)
         IN  ClaimedLookups(k - 1) \o
             IF step_results[k].step.step_type = mkStr("specific_case")
             THEN [i \in 1..Len(wanted) |-> mkInt(wanted[i])]
             ELSE <<>>

\* C18 (as stated): a specific_case step looks up the first three of its candidates;
\* the candidates are the case numbers listed for the step when any are, and the prior
\* results are consulted only when none are and use_prior_results is set: then they are
\* the numbers of the first three cases of each prior step, in step order, each once.
C18_ExplicitNumbersExcludePrior ==
    (pc = "done" /\ plan.kind = "compound") => lookups = ClaimedLookups(Len(step_results))

\* what a turn of the loop added to a log
Added(before, after) == SubSeq(after, Len(before) + 1, Len(after))

\* C19: whatever result_count and case_numbers a step carries, a turn of the loop over
\* the steps asks for at most 50 results in the one search of a broad_search step, for
\* at most 10 in the one search of a filtered_search step, and issues at most 3 point
\* lookups, and no search, for a specific_case step; it adds no more cases than it
\* asked for, and a run never holds more than 4 x 50 cases before deduplication.
C19_StepRequestsWithinCaps ==
    [][(pc = "steps" /\ step_idx <= Len(plan.steps)) =>
          LET st == plan.steps[step_idx]
              asked == Added(searches, searches')
              fetched == Added(lookups, lookups')
              got == Len(all_cases') - Len(all_cases)
          IN  /\ st.step_type = mkStr("broad_search") =>
                    /\ Len(asked) <= 1 /\ fetched = <<>>
                    /\ \A i \in 1..Len(asked) :
                          asked[i].n_results.v <= 50 /\ got <= asked[i].n_results.v
              /\ st.step_type = mkStr("filtered_search") =>
                    /\ Len(asked) <= 1 /\ fetched = <<>>
                    /\ \A i \in 1..Len(asked) :
                          asked[i].n_results.v <= 10 /\ got <= asked[i].n_results.v
              /\ st.step_type = mkStr("specific_case") =>
                    /\ asked = <<>>
                    /\ Len(fetched) <= 3
                    /\ got <= Len(fetched)
              /\ st.step_type \notin {mkStr("broad_search"), mkStr("filtered_search"),
                                       mkStr("specific_case")} =>
                    (asked = <<>> /\ fetched = <<>> /\ got = 0)
              /\ got <= 50
              /\ Len(all_cases') <= 4 * 50]_vars

\* a filtered_search step that carried result_count 30 asked for 10, and a
\* specific_case step that listed four case numbers looked three up
C19_Witness ==
    /\ pc = "done"
    /\ plan.kind = "compound"
    /\ Len(step_results) = 2
    /\ step_results[1].step.step_type = mkStr("filtered_search")
    /\ step_results[1].step.result_count = mkInt(30)
    /\ searches = <<SearchCall(mkInt(10), step_results[1].step.date_start,
                               step_results[1].step.date_end, None, step_results[1].step.brands)>>
    /\ step_results[2].step.step_type = mkStr("specific_case")
    /\ SearchStep(ListedSteps[2], query, today).case_numbers.t = "list"
    /\ Len(SearchStep(ListedSteps[2], query, today).case_numbers.v) = 4
    /\ Len(lookups) = 3

\* the places of the accumulated cases that C20 keeps: a case without a case number, or
\* the first case with its number
KeptPlaces ==
    {i \in 1..Len(all_cases) :
        \/ all_cases[i].case_number = 0
        \/ \A j \in 1..(i - 1) : all_cases[j].case_number # all_cases[i].case_number}

\* C20: the cases a compound run hands to the synthesis are the accumulated cases at
\* the kept places, in accumulation order: every case without a case number, however
\* many there are, the first case of each case number, and nothing else.
C20_DedupeKeepsOrder ==
    (pc = "done" /\ plan.kind = "compound") =>
        /\ Len(cases) = Cardinality(KeptPlaces)
        /\ \A i \in KeptPlaces : cases[Cardinality({j \in KeptPlaces : j <= i})] = all_cases[i]

\* a run that accumulated case 500 twice and a case without a number twice, and kept
\* one of the first and both of the second
C20_Witness ==
    /\ pc = "done"
    /\ plan.kind = "compound"
    /\ Cardinality({i \in 1..Len(all_cases) : all_cases[i].case_number = 500}) = 2
    /\ Cardinality({i \in 1..Len(all_cases) : all_cases[i].case_number = 0}) = 2
    /\ Cardinality({i \in 1..Len(cases) : cases[i].case_number = 500}) = 1
    /\ Cardinality({i \in 1..Len(cases) : cases[i].case_number = 0}) = 2

\* the steps of the run that returned an aggregation payload
AggregationSteps == {k \in 1..Len(step_results) : step_results[k].result.has_aggregation}

\* C21 (as stated): at the end of a compound run the aggregation map handed to the
\* synthesis holds one entry for each step that returned an aggregation payload, under
\* that step's purpose and holding that step's payload.
C21_EveryPayloadKept ==
    (pc = "done" /\ plan.kind = "compound") =>
        /\ Len(all_aggregations) = Cardinality(AggregationSteps)
        /\ \A k \in AggregationSteps :
              \E i \in 1..Len(all_aggregations) :
                  /\ all_aggregations[i].purpose = step_results[k].step.purpose
                  /\ all_aggregations[i].data = step_results[k].result.aggregation

\* the places in the phrase table of the phrases a query holds
PhrasesHeld(ql) == {i \in 1..Len(DatePhrases) : Contains(ql, DatePhrases[i])}

\* the range C22 gives the phrase at place i of the table on day d
RangeOfPhrase(i, d) ==
    IF i <= 3 THEN <<d - 30, d>>
    ELSE IF i <= 7 THEN <<d - 7, d>>
    ELSE IF i = 8 THEN <<d - ((d + 2) % 7), d>>
    ELSE IF i = 9 THEN <<CHOOSE m \in MonthStarts : m <= d /\ \A n \in MonthStarts : n <= d => n <= m, d>>
    ELSE IF i = 10 THEN <<d, d>>
    ELSE IF i = 11 THEN <<d - 1, d - 1>>
    ELSE <<d - 14, d>>

\* C22: the date phrases are looked for in a fixed order (the 30-day phrases, last and
\* past week, last and past 7 days, this week, this month, today, yesterday, recent)
\* and the first one the query holds decides the range, wherever in the query it
\* stands; a query that holds none gets (null, null); and every range that is not null
\* has start <= end <= current date.
C22_FirstPhraseWins ==
    (pc \in {"execute", "respond", "done"} /\ plan.kind = "simple") =>
        LET held == PhrasesHeld(Lower(query))
            range == PlanRange(plan)
        IN  /\ held = {} => range = <<None, None>>
            /\ held # {} =>
                  LET first == CHOOSE i \in held : \A j \in held : i <= j
                      want == RangeOfPhrase(first, today)
                  IN  /\ range = <<mkDate(want[1]), mkDate(want[2])>>
                      /\ range[1].v <= range[2].v
                      /\ range[2].v <= today

\* a query that names "recent" before "last 30 days" got the 30 days
C22_Witness ==
    /\ pc = "done"
    /\ query = <<"recent", "last 30 days">>
    /\ PlanRange(plan) = <<mkDate(today - 30), mkDate(today)>>

\* the stored themes and brands a query names
ThemesNamed(ql) ==
    {th \in Range(available.themes) :
        Contains(ql, LowerTok(th)) \/ Contains(ql, UnderscoreToSpace(th))}

BrandsNamed(ql) == {b \in Range(available.brands) : Contains(ql, LowerTok(b))}

\* the value of a plan's list field for the names found: null when there are none
HoldsNames(field, names) ==
    IF names = {} THEN field = None
    ELSE field.t = "list" /\ Range(field.v) = names /\ Len(field.v) = Cardinality(names)

\* C23: with no completion capability, a query with neither a case reference nor an
\* aggregation keyword is classified by rules: a filtered_search (result_count 10,
\* full_conversation) carrying the themes, brands and date range found when a theme, a
\* brand or a date phrase was found, and otherwise a broad_search (result_count 100,
\* summary); in both the semantic_query is the raw query.
C23_RuleBasedClassification ==
    ( /\ pc = "execute"
      /\ ~llm.configured
      /\ ReferencedNumbers(query) = {}
      /\ ~is_aggregation_query(query) ) =>
        LET ql == Lower(query)
            range == extract_date_range(query, today)
            signal == ThemesNamed(ql) # {} \/ BrandsNamed(ql) # {} \/ range[1] # None
        IN  /\ plan.kind = "simple"
            /\ plan.semantic_query = mkText(query)
            /\ PlanRange(plan) = range
            /\ plan.case_number = None
            /\ plan.aggregation_type = None
            /\ IF signal
               THEN /\ plan.query_type = mkStr("filtered_search")
                    /\ plan.result_count = mkInt(10)
                    /\ plan.detail_level = mkStr("full_conversation")
                    /\ HoldsNames(plan.themes, ThemesNamed(ql))
                    /\ HoldsNames(plan.brands, BrandsNamed(ql))
               ELSE /\ plan.query_type = mkStr("broad_search")
                    /\ plan.result_count = mkInt(100)
                    /\ plan.detail_level = mkStr("summary")
                    /\ plan.themes = None
                    /\ plan.brands = None

\* a query that names only a date phrase became a filtered search over that range
C23_Witness ==
    /\ pc = "execute"
    /\ ~llm.configured
    /\ query = <<"yesterday">>
    /\ plan.kind = "simple"
    /\ plan.query_type = mkStr("filtered_search")
    /\ plan.themes = None
    /\ plan.date_start = mkDate(today - 1)

\* the completion calls made so far at a call site
CallsAt(site) == {i \in 1..Len(llm_calls) : llm_calls[i].site = site}

\* C24: nothing is retried.  Within one process_query each call site asks the
\* completion capability at most once (planning, classification, synthesis, in that
\* order, so at most three calls), a call that failed is not issued again, and after a
\* failed planning call the query goes down the simple path, never into the steps of a
\* compound plan.
C24_NoRetry ==
    /\ \A site \in {"planning", "classification", "synthesis"} : Cardinality(CallsAt(site)) <= 1
    /\ Len(llm_calls) <= 3
    /\ \A i, j \in 1..Len(llm_calls) :
          i < j => <<llm_calls[i].site, llm_calls[j].site>> \in
                       { <<"planning", "classification">>, <<"planning", "synthesis">>,
                         <<"classification", "synthesis">> }
    /\ (Len(llm_calls) > 0 /\ llm_calls[1] = [site |-> "planning", failed |-> TRUE]) =>
          /\ pc \in {"fast", "llm", "rule", "execute", "respond", "done", "raised"}
          /\ plan.kind # "compound"

\* a query whose planning, classification and synthesis calls all failed, once each
C24_Witness ==
    /\ pc = "done"
    /\ Len(llm_calls) = 3
    /\ \A i \in 1..3 : llm_calls[i].failed
    /\ plan.kind = "simple"

\* source is the citation of case c
Cites(source, c) ==
    /\ source.case_number = c.case_number
    /\ source.id = <<"#", c.case_number>>
    /\ source.brand = c.brand
    /\ source.theme = c.theme
    /\ source.outcome = c.outcome

\* C25: in every result returned, of a simple or a compound plan, with or without a
\* completion capability and also when the synthesis call failed, cases_found is the
\* number of entries of sources, and sources[i] is the citation of the i-th case handed
\* to the synthesizer.
C25_SourcesMatchCases ==
    (pc = "done") =>
        /\ result.status = "returned"
        /\ result.cases_found = Len(result.sources)
        /\ Len(result.sources) = Len(cases)
        /\ \A i \in 1..Len(cases) : Cites(result.sources[i], cases[i])

\* a compound run that cites two or more cases, one of
\* them without a case number
C25_Witness ==
    /\ pc = "done"
    /\ plan.kind = "compound"
    /\ result.cases_found >= 2
    /\ \E i \in 1..Len(cases) : cases[i].case_number = 0
    /\ \A i \in 1..Len(cases) : Cites(result.sources[i], cases[i])

\* the places of the synthesis context where case c is rendered
RenderedAt(c) == {i \in 1..Len(context.cases) : context.cases[i].id = c.id}

\* C26: in a compound run every case counted in cases_found and cited in sources is
\* rendered in the synthesis context, in exactly one of its two buckets (the summaries
\* or the detailed transcripts), whatever detail_level the step that produced it carried.
C26_EveryCitedCaseRendered ==
    (pc = "done" /\ plan.kind = "compound") =>
        /\ result.cases_found = Len(cases)
        /\ \A i \in 1..Len(cases) : Cardinality(RenderedAt(cases[i])) = 1

\* the key under which a distribution counts a stored case
KeyIn(name, c) ==
    IF name = "brand_distribution" THEN BrandKey(c)
    ELSE IF name = "sentiment_distribution" THEN SentimentKey(c)
    ELSE ThemeKey(c)

\* a is an aggregation over every case of the store
OverWholeStore(a) ==
    /\ a.total_cases = Len(store)
    /\ {a.distribution[i].key : i \in 1..Len(a.distribution)} =
           {KeyIn(a.name, store[i]) : i \in 1..Len(store)}
    /\ \A i \in 1..Len(a.distribution) :
          a.distribution[i].count =
              Cardinality({j \in 1..Len(store) : KeyIn(a.name, store[j]) = a.distribution[i].key})

\* C29: the distribution and total_cases of an aggregation plan and of an aggregation
\* step are computed over the entire store: they are the same whatever the date range,
\* themes and brands of the plan and whatever the UI filters; the filters decide the
\* sample cases only.
C29_AggregationIgnoresFilters ==
    /\ ( /\ pc \in {"respond", "done"}
          /\ plan.kind = "simple"
          /\ plan.query_type = mkStr("aggregation") ) => OverWholeStore(aggregation_data)
    /\ \A k \in AggregationSteps : OverWholeStore(step_results[k].result.aggregation)
    /\ \A i \in 1..Len(all_aggregations) : OverWholeStore(all_aggregations[i].data)

\* an aggregation under every UI filter: the distribution counts the four cases of the
\* store, the sample holds only the case that passes the filters
C29_Witness ==
    /\ pc = "done"
    /\ ui = AllFilters
    /\ plan.kind = "simple"
    /\ plan.query_type = mkStr("aggregation")
    /\ plan.brands = mkList(<<"B2">>)
    /\ aggregation_data.total_cases = 4
    /\ SumOfCounts(aggregation_data.distribution) = 4
    /\ Len(cases) = 1
    /\ cases[1].brand = "B2"

\* the ids of the cases a run has yielded
YieldedIds == {fetch.yielded[i].id : i \in 1..Len(fetch.yielded)}

\* C27 (as stated): when fetch_cases_with_messages_batched has returned, the cases it
\* yielded are exactly the cases it accepted, the distinct ids counted in cases_fetched:
\* each of them once, with a messages field, and none left in a batch that was never
\* processed.
C27_EveryAcceptedCaseYielded ==
    (fetch.pc = "returned") =>
        /\ Len(fetch.yielded) = fetch.cases_fetched
        /\ YieldedIds = fetch.seen_ids
        /\ Cardinality(YieldedIds) = Len(fetch.yielded)

\* C28 (as stated): whatever calls of chat were made and whether their completion calls
\* succeeded or failed, conversation_history holds at most 20 messages.
C28_HistoryAtMostTwenty == Len(chatbot.conversation_history) <= HISTORY_LIMIT

\* C30 (as stated): a set_provider(p) that fails because the API key of p is not
\* configured leaves the chatbot as it was, its provider still the one its client was
\* built for and its history intact; one that succeeds with another provider rebuilds
\* the client and clears the history; one with the same provider changes nothing.
C30_SetProviderAllOrNothing ==
    (last_call.op = "set_provider") =>
        IF last_call.raised
        THEN /\ chatbot = last_call.before
             /\ chatbot.provider = chatbot.llm_client
        ELSE IF last_call.provider # last_call.before.provider
        THEN /\ chatbot.provider = last_call.provider
             /\ chatbot.llm_client = last_call.provider
             /\ chatbot.conversation_history = <<>>
        ELSE chatbot = last_call.before

=============================================================================
